---- MODULE Spec2Model ----
(***************************************************************************)
(* Model of the confirmation-driven conversation controller of noterer:    *)
(* ConversationTurn, Conversation and ConversationalFlowController of      *)
(* backend/ai/conversation_controller.py.                                  *)
(*                                                                         *)
(* Python objects are modelled with their identity: every ConversationTurn *)
(* lives in conv.heap and Conversation.turns / current_turn hold indices   *)
(* into it (0 is None).  A coroutine is modelled by a call record whose pc *)
(* is the await it is suspended at; the code between two awaits is one     *)
(* step.                                                                   *)
(***************************************************************************)
EXTENDS Naturals, Sequences, FiniteSets, TLC

VARIABLES conv, calls, ncalls, ctx, ops,
          objects, self_active_conversations, active_conversations,
          requests, nrequests

\* the registries of active conversations, the Conversation objects they
\* refer to, and the requests made on them
registry_vars ==
    <<objects, self_active_conversations, active_conversations,
      requests, nrequests>>

vars ==
    <<conv, calls, ncalls, ctx, ops, objects, self_active_conversations,
      active_conversations, requests, nrequests>>

-----------------------------------------------------------------------------
(* Bounds of the model                                                     *)

\* calls of process_user_input / process_confirmation made in one behaviour
MaxCalls == 3
\* direct calls of Conversation methods made in one behaviour
MaxOps == 5
\* tokens of a response text of the reasoning service
MaxTokens == 5
\* requests made on the registries in one behaviour
MaxRequests == 3
\* Conversation objects created through the registries in one behaviour
MaxObjects == 2

-----------------------------------------------------------------------------
(* Values                                                                  *)

\* a key that a dict does not have, or a field that is None
Absent == "<absent>"
\* ai_response is None
NoneText == <<"<None>">>

\* ConversationState
INITIAL == "initial"
AWAITING_USER_INPUT == "awaiting_user_input"
ANALYZING == "analyzing"
AWAITING_CONFIRMATION == "awaiting_confirmation"
EXECUTING == "executing"
ERROR == "error"

\* ActionStatus values used by the controller
EXECUTED == "executed"
FAILED == "failed"

\* A dict of the action payload: every key of the model's key universe,
\* Absent when the dict has no such key.  mapping = FALSE is a list element
\* that is no dict (a string, a number): it has no .get and cannot be
\* unpacked with **.
Dict(type, content) ==
    [mapping |-> TRUE, type |-> type, content |-> content,
     status |-> Absent, result |-> Absent, error |-> Absent]
NonMapping(text) ==
    [mapping |-> FALSE, type |-> Absent, content |-> text,
     status |-> Absent, result |-> Absent, error |-> Absent]

NoteAction == Dict("create_note", "stoicism")
ConceptAction == Dict("create_concept", "virtue")
UntypedAction == Dict(Absent, "x")
\* an action whose payload has a field named status
DraftAction == [Dict("create_note", "stoicism") EXCEPT !.status = "draft"]

\* A value found under the proposed_actions key: a JSON list, or a value of
\* another JSON type.  items is what iterating the value yields.
PList(items) == [kind |-> "list", items |-> items]
PNull == [kind |-> "null", items |-> <<>>]
PInt == [kind |-> "int", items |-> <<>>]
PStr == [kind |-> "str", items |-> <<NonMapping("a")>>]
PDict == [kind |-> "dict", items |-> <<NonMapping("type")>>]
EmptyList == PList(<<>>)

\* bool(value), len(value) and iter(value) of Python
Truthy(pa) ==
    CASE pa.kind = "null" -> FALSE
      [] pa.kind = "int" -> TRUE
      [] OTHER -> pa.items # <<>>
HasLen(pa) == pa.kind \notin {"null", "int"}
Iterable(pa) == pa.kind \notin {"null", "int"}

-----------------------------------------------------------------------------
(* ConversationTurn and Conversation                                       *)

\* ConversationTurn.__init__(user_input=user_input)
ConversationTurn(user_input) ==
    [user_input |-> user_input,
     ai_response |-> NoneText,
     proposed_actions |-> EmptyList,
     confirmed |-> FALSE,
     executed_actions |-> <<>>,
     timestamp |-> Absent]

\* Conversation.__init__
NewConversation ==
    [turns |-> <<>>, state |-> INITIAL, current_turn |-> 0, heap |-> <<>>]

\* the open turn object, when there is one
CurrentTurn(c) == c.heap[c.current_turn]

\* The result of a Conversation method: the conversation after it and
\* whether it raised ValueError("No active conversation turn").
Ok(c) == [raised |-> FALSE, conv |-> c]
Raise(c) == [raised |-> TRUE, conv |-> c]

\* start_new_turn that takes an open turn over instead of closing it
start_new_turn_reuse(c, user_input) ==
    IF c.current_turn # 0
    THEN Ok([c EXCEPT !.heap[c.current_turn].user_input = user_input,
                      !.state = ANALYZING])
    ELSE Ok([c EXCEPT !.heap = Append(c.heap, ConversationTurn(user_input)),
                      !.current_turn = Len(c.heap) + 1,
                      !.state = ANALYZING])

\* start_new_turn that closes the open turn twice
start_new_turn_appends_twice(c, user_input) ==
    LET closed == IF c.current_turn # 0
                  THEN [c EXCEPT !.turns = c.turns \o <<c.current_turn,
                                                         c.current_turn>>]
                  ELSE c
    IN  Ok([closed EXCEPT !.heap = Append(c.heap, ConversationTurn(user_input)),
                          !.current_turn = Len(c.heap) + 1,
                          !.state = ANALYZING])

start_new_turn(c, user_input) ==
    LET closed == IF c.current_turn # 0
                  THEN [c EXCEPT !.turns = Append(c.turns, c.current_turn)]
                  ELSE c
        id == Len(c.heap) + 1
    IN  Ok([closed EXCEPT !.heap = Append(c.heap, ConversationTurn(user_input)),
                          !.current_turn = id,
                          !.state = ANALYZING])

\* set_executed_actions that stores the list and leaves the turn open
set_executed_actions_keeps_open(c, executed_actions) ==
    IF c.current_turn = 0 THEN Raise(c)
    ELSE Ok([c EXCEPT !.heap[c.current_turn].executed_actions = executed_actions,
                      !.state = AWAITING_USER_INPUT])

set_proposed_actions(c, ai_response, proposed_actions) ==
    IF c.current_turn = 0 THEN Raise(c)
    ELSE Ok([c EXCEPT !.heap[c.current_turn].ai_response = ai_response,
                      !.heap[c.current_turn].proposed_actions = proposed_actions,
                      !.state = AWAITING_CONFIRMATION])

\* set_confirmation that closes the turn whatever the answer is
set_confirmation_always_closes(c, confirmed) ==
    IF c.current_turn = 0 THEN Raise(c)
    ELSE Ok([c EXCEPT !.heap[c.current_turn].confirmed = confirmed,
                      !.turns = Append(c.turns, c.current_turn),
                      !.current_turn = 0,
                      !.state = AWAITING_USER_INPUT])

\* set_confirmation that does nothing, and raises nothing, without a turn
set_confirmation_without_turn(c, confirmed) ==
    IF c.current_turn = 0 THEN Ok(c)
    ELSE LET c1 == [c EXCEPT !.heap[c.current_turn].confirmed = confirmed]
         IN  IF confirmed
             THEN Ok([c1 EXCEPT !.state = EXECUTING])
             ELSE Ok([c1 EXCEPT !.turns = Append(c.turns, c.current_turn),
                                !.current_turn = 0,
                                !.state = AWAITING_USER_INPUT])

\* set_confirmation that, on a rejection, leaves the rejected turn as the
\* current turn
set_confirmation_keeps_rejected(c, confirmed) ==
    IF c.current_turn = 0 THEN Raise(c)
    ELSE LET c1 == [c EXCEPT !.heap[c.current_turn].confirmed = confirmed]
         IN  IF confirmed
             THEN Ok([c1 EXCEPT !.state = EXECUTING])
             ELSE Ok([c1 EXCEPT !.turns = Append(c.turns, c.current_turn),
                                !.state = AWAITING_USER_INPUT])


set_confirmation(c, confirmed) ==
    IF c.current_turn = 0 THEN Raise(c)
    ELSE LET c1 == [c EXCEPT !.heap[c.current_turn].confirmed = confirmed]
         IN  IF confirmed
             THEN Ok([c1 EXCEPT !.state = EXECUTING])
             ELSE Ok([c1 EXCEPT !.turns = Append(c.turns, c.current_turn),
                                !.current_turn = 0,
                                !.state = AWAITING_USER_INPUT])

\* set_executed_actions that closes the turn only when no entry failed
set_executed_actions_open_on_failure(c, executed_actions) ==
    IF c.current_turn = 0 THEN Raise(c)
    ELSE IF \E i \in 1..Len(executed_actions) : executed_actions[i].status = FAILED
    THEN Ok([c EXCEPT !.heap[c.current_turn].executed_actions = executed_actions])
    ELSE Ok([c EXCEPT !.heap[c.current_turn].executed_actions = executed_actions,
                      !.turns = Append(c.turns, c.current_turn),
                      !.current_turn = 0,
                      !.state = AWAITING_USER_INPUT])

set_executed_actions(c, executed_actions) ==
    IF c.current_turn = 0 THEN Raise(c)
    ELSE Ok([c EXCEPT !.heap[c.current_turn].executed_actions = executed_actions,
                      !.turns = Append(c.turns, c.current_turn),
                      !.current_turn = 0,
                      !.state = AWAITING_USER_INPUT])

\* Conversation.get_context_for_ai: the default of max_turns
DefaultMaxTurns == 5

\* self.turns[-max_turns:] if len(self.turns) > 0 else []   (max_turns >= 0;
\* a start of -0 is the start of the list)
RecentTurns(turns, max_turns) ==
    IF Len(turns) = 0 THEN <<>>
    ELSE IF max_turns = 0 \/ max_turns >= Len(turns) THEN turns
    ELSE SubSeq(turns, Len(turns) - max_turns + 1, Len(turns))

\* bool(text) of an Optional[str]
TruthyText(text) == text # NoneText /\ text # <<>>

\* The formatted history, one record per block of text the method writes:
\* "Turn i:" with its User / AI / confirmed-or-rejected lines, then the
\* "Current Turn:" block.  The empty string is the empty sequence.
get_context_for_ai(c, max_turns) ==
    LET recent == RecentTurns(c.turns, max_turns)
        block(i) ==
            LET turn == c.heap[recent[i]]
            IN  [kind |-> "turn", index |-> i,
                 user_input |-> turn.user_input,
                 ai_response |-> IF TruthyText(turn.ai_response)
                                 THEN turn.ai_response ELSE NoneText,
                 confirmed |-> turn.confirmed]
        history == [i \in 1..Len(recent) |-> block(i)]
    IN  IF c.current_turn # 0 /\ CurrentTurn(c).user_input # ""
        THEN Append(history,
                    [kind |-> "current", index |-> 0,
                     user_input |-> CurrentTurn(c).user_input,
                     ai_response |-> NoneText, confirmed |-> FALSE])
        ELSE history

-----------------------------------------------------------------------------
(* The extractor.  A response text is a sequence of tokens: FENCE (three   *)
(* backticks), "json", WS (white space), prose words, and JSON texts.      *)

FENCE == "<fence>"
WS == "WS"

\* json.loads of one JSON text of the model's alphabet.  valid = FALSE is
\* JSONDecodeError; top is the type of the decoded value; has_key and value
\* describe a decoded object.
Decoded(top, has_key, value) ==
    [valid |-> TRUE, top |-> top, has_key |-> has_key, value |-> value]
NotJson == [valid |-> FALSE, top |-> Absent, has_key |-> FALSE, value |-> PNull]

json_loads(json_str) ==
    IF Len(json_str) # 1 THEN NotJson
    ELSE CASE json_str[1] = "{proposed_actions:[note,concept]}" ->
                Decoded("object", TRUE, PList(<<NoteAction, ConceptAction>>))
           [] json_str[1] = "{proposed_actions:[note]}" ->
                Decoded("object", TRUE, PList(<<NoteAction>>))
           [] json_str[1] = "{proposed_actions:[concept,concept]}" ->
                Decoded("object", TRUE, PList(<<ConceptAction, ConceptAction>>))
           [] json_str[1] = "{proposed_actions:[untyped,note]}" ->
                Decoded("object", TRUE, PList(<<UntypedAction, NoteAction>>))
           [] json_str[1] = "{proposed_actions:[draft,concept]}" ->
                Decoded("object", TRUE, PList(<<DraftAction, ConceptAction>>))
           [] json_str[1] = "{proposed_actions:[]}" ->
                Decoded("object", TRUE, EmptyList)
           [] json_str[1] = "{proposed_actions:['x',note]}" ->
                Decoded("object", TRUE, PList(<<NonMapping("x"), NoteAction>>))
           [] json_str[1] = "{proposed_actions:null}" ->
                Decoded("object", TRUE, PNull)
           [] json_str[1] = "{proposed_actions:5}" ->
                Decoded("object", TRUE, PInt)
           [] json_str[1] = "{proposed_actions:'a'}" ->
                Decoded("object", TRUE, PStr)
           [] json_str[1] = "{proposed_actions:{type:1}}" ->
                Decoded("object", TRUE, PDict)
           [] json_str[1] = "{other:1}" ->
                Decoded("object", FALSE, PNull)
           [] json_str[1] = "[1]" ->
                Decoded("array", FALSE, PNull)
           [] json_str[1] = "5" ->
                Decoded("number", FALSE, PNull)
           [] OTHER -> NotJson

\* str.strip()
RECURSIVE LStrip(_)
LStrip(s) == IF s # <<>> /\ Head(s) = WS THEN LStrip(Tail(s)) ELSE s
RECURSIVE RStrip(_)
RStrip(s) ==
    IF s # <<>> /\ s[Len(s)] = WS THEN RStrip(SubSeq(s, 1, Len(s) - 1)) ELSE s
Strip(s) == RStrip(LStrip(s))

\* response.find(FENCE + "json"): the first index, 0 for -1
FindJsonFence(response) ==
    LET hits == {i \in 1..Len(response) :
                    /\ response[i] = FENCE
                    /\ i < Len(response)
                    /\ response[i + 1] = "json"}
    IN  IF hits = {} THEN 0 ELSE CHOOSE i \in hits : \A j \in hits : i <= j

\* response.find(FENCE, json_start + 6): the search starts inside the word
\* json of the opening fence, so the first fence after it is found
FindClosingFence(response, json_start) ==
    LET hits == {i \in 1..Len(response) : i > json_start /\ response[i] = FENCE}
    IN  IF hits = {} THEN 0 ELSE CHOOSE i \in hits : \A j \in hits : i <= j

\* _extract_actions_from_response that trims the response it falls back to
_extract_actions_from_response_trims(response) ==
    LET json_start == FindJsonFence(response)
        json_end == FindClosingFence(response, json_start)
        json_str == Strip(SubSeq(response, json_start + 2, json_end - 1))
        action_data == json_loads(json_str)
        user_response == SubSeq(response, 1, json_start - 1)
                           \o SubSeq(response, json_end + 1, Len(response))
    IN  IF json_start = 0 \/ json_end = 0 THEN <<Strip(response), EmptyList>>
        ELSE IF ~action_data.valid THEN <<Strip(response), EmptyList>>
        ELSE IF action_data.top \notin {"object", "array"}
             THEN <<Strip(response), EmptyList>>
        ELSE IF action_data.has_key
             THEN <<Strip(user_response), action_data.value>>
             ELSE <<Strip(user_response), EmptyList>>

\* _extract_actions_from_response that removes the block before it parses it
_extract_actions_from_response_removes_first(response) ==
    LET json_start == FindJsonFence(response)
        json_end == FindClosingFence(response, json_start)
        json_str == Strip(SubSeq(response, json_start + 2, json_end - 1))
        action_data == json_loads(json_str)
        user_response == SubSeq(response, 1, json_start - 1)
                           \o SubSeq(response, json_end + 1, Len(response))
    IN  IF json_start = 0 \/ json_end = 0 THEN <<response, EmptyList>>
        ELSE IF ~action_data.valid THEN <<Strip(user_response), EmptyList>>
        ELSE IF action_data.top \notin {"object", "array"}
             THEN <<Strip(user_response), EmptyList>>
        ELSE IF action_data.has_key
             THEN <<Strip(user_response), action_data.value>>
             ELSE <<Strip(user_response), EmptyList>>

\* _extract_actions_from_response that leaves the block in the text it
\* returns with the actions
_extract_actions_from_response_keeps_block(response) ==
    LET json_start == FindJsonFence(response)
        json_end == FindClosingFence(response, json_start)
        json_str == Strip(SubSeq(response, json_start + 2, json_end - 1))
        action_data == json_loads(json_str)
    IN  IF json_start = 0 \/ json_end = 0 THEN <<response, EmptyList>>
        ELSE IF ~action_data.valid THEN <<response, EmptyList>>
        ELSE IF action_data.top \notin {"object", "array"}
             THEN <<response, EmptyList>>
        ELSE IF action_data.has_key
             THEN <<Strip(response), action_data.value>>
             ELSE <<Strip(response), EmptyList>>

\* _extract_actions_from_response that takes the last json-tagged block
\* of the response
_extract_actions_from_response_last_block(response) ==
    LET opens == {i \in 1..Len(response) :
                     /\ response[i] = FENCE
                     /\ i < Len(response)
                     /\ response[i + 1] = "json"}
        json_start == IF opens = {} THEN 0
                      ELSE CHOOSE i \in opens : \A j \in opens : i >= j
        json_end == FindClosingFence(response, json_start)
        json_str == Strip(SubSeq(response, json_start + 2, json_end - 1))
        action_data == json_loads(json_str)
        user_response == SubSeq(response, 1, json_start - 1)
                           \o SubSeq(response, json_end + 1, Len(response))
    IN  IF json_start = 0 \/ json_end = 0 THEN <<response, EmptyList>>
        ELSE IF ~action_data.valid THEN <<response, EmptyList>>
        ELSE IF action_data.top \notin {"object", "array"}
             THEN <<response, EmptyList>>
        ELSE IF action_data.has_key
             THEN <<Strip(user_response), action_data.value>>
             ELSE <<Strip(user_response), EmptyList>>

\* _extract_actions_from_response: <<response text, proposed actions>>
_extract_actions_from_response(response) ==
    LET json_start == FindJsonFence(response)
        json_end == FindClosingFence(response, json_start)
        json_str == Strip(SubSeq(response, json_start + 2, json_end - 1))
        action_data == json_loads(json_str)
        user_response == SubSeq(response, 1, json_start - 1)
                           \o SubSeq(response, json_end + 1, Len(response))
    IN  IF json_start = 0 \/ json_end = 0 THEN <<response, EmptyList>>
        ELSE IF ~action_data.valid THEN <<response, EmptyList>>
        ELSE IF action_data.top \notin {"object", "array"}
             THEN <<response, EmptyList>>
        ELSE IF action_data.has_key
             THEN <<Strip(user_response), action_data.value>>
             ELSE <<Strip(user_response), EmptyList>>

-----------------------------------------------------------------------------
(* ConversationalFlowController: the coroutines                            *)

\* A call of process_user_input or process_confirmation: its arguments, its
\* locals, where it is (pc) and how it ended (ret, exc).
\*   pc: "idle"     no call yet
\*       "query"    suspended in  await self.ai_manager.query(...)
\*       "handler"  suspended in  await action_handlers[action_type](action)
\*       "finish"   the for loop is over (never the pc of a stored call)
\*       "returned" | "raised" | "cancelled"
\* turn0, attempted, invoked and outcomes record what the call did: the
\* current turn when it started, the indices whose loop body began, the
\* handler invocations made and how each awaited handler ended.  result is
\* the dict the awaited query returned.
NoReturn ==
    [response |-> <<>>, proposed_actions |-> EmptyList,
     requires_confirmation |-> FALSE, conversation_state |-> Absent,
     confirmed |-> FALSE, executed_actions |-> <<>>]

\* the result dict of AIManager.query: its response and, after a failure of
\* the service, its error key
QueryResult(response, error) == [response |-> response, error |-> error]
NoResult == QueryResult(<<>>, Absent)

IdleCall ==
    [kind |-> "none", pc |-> "idle", n |-> 0,
     user_input |-> "", confirmed |-> FALSE, handlers |-> {},
     merged_context |-> <<>>, shares_context |-> FALSE,
     turn0 |-> 0, plist |-> <<>>, idx |-> 0,
     executed |-> <<>>, errors |-> <<>>,
     attempted |-> <<>>, invoked |-> <<>>, outcomes |-> <<>>,
     result |-> NoResult,
     exc |-> Absent, ret |-> NoReturn]

InFlight(k) == k.pc \in {"query", "handler"}

\* action.get("type", "unknown")
ActionType(action) == IF action.type = Absent THEN "unknown" ELSE action.type

\* A message text is, like a response text, a sequence of tokens: its
\* literal parts and the values formatted into it.
\* "; ".join(errors)
RECURSIVE Join(_)
Join(errors) ==
    IF errors = <<>> THEN <<>>
    ELSE IF Len(errors) = 1 THEN errors[1]
    ELSE errors[1] \o <<"; ">> \o Join(Tail(errors))

CancelledMessage == <<"Actions cancelled as requested.">>
SuccessMessage == <<"All actions were completed successfully.">>

\* The for loop of process_confirmation from element i on, up to the next
\* await (pc "handler"), an exception leaving the call (pc "raised") or the
\* end of the list (pc "finish").
RECURSIVE Dispatch(_, _)
Dispatch(k, i) ==
    IF i > Len(k.plist) THEN [k EXCEPT !.pc = "finish"]
    ELSE
      LET action == k.plist[i]
          k1 == [k EXCEPT !.idx = i, !.attempted = Append(@, i)]
      IN  IF ~action.mapping
          \* action.get raises AttributeError; the except clause then
          \* evaluates {**action, ...}, which raises TypeError
          THEN [k1 EXCEPT !.pc = "raised", !.exc = "TypeError"]
          ELSE IF k.handlers # {} /\ ActionType(action) \in k.handlers
          THEN [k1 EXCEPT !.pc = "handler",
                          !.invoked = Append(@, [idx |-> i, action |-> action])]
          ELSE Dispatch(
                 [k1 EXCEPT
                    !.executed = Append(@, [action EXCEPT
                                              !.status = FAILED,
                                              !.error = "No handler available"]),
                    !.errors = Append(@, <<"No handler available for action type: ",
                                           ActionType(action)>>)],
                 i + 1)

\* HandlerOutcome with the new entry put in front of the list
HandlerOutcome_prepend(k, outcome) ==
    LET action == k.plist[k.idx]
        entry == IF outcome.raised
                 THEN [action EXCEPT !.status = FAILED, !.error = outcome.value]
                 ELSE [action EXCEPT !.status = EXECUTED, !.result = outcome.value]
    IN  [k EXCEPT
           !.executed = <<entry>> \o @,
           !.errors = IF outcome.raised
                      THEN Append(@, <<"Error executing ", ActionType(action),
                                       " action: ", outcome.value>>)
                      ELSE @,
           !.outcomes = Append(@, [idx |-> k.idx, raised |-> outcome.raised,
                                   value |-> outcome.value])]

\* HandlerOutcome with the exception of a handler swallowed: the action is
\* recorded as executed
HandlerOutcome_swallow(k, outcome) ==
    LET action == k.plist[k.idx]
    IN  [k EXCEPT
           !.executed = Append(@, [action EXCEPT
                                     !.status = EXECUTED,
                                     !.result = IF outcome.raised THEN Absent
                                                ELSE outcome.value]),
           !.outcomes = Append(@, [idx |-> k.idx, raised |-> outcome.raised,
                                   value |-> outcome.value])]

\* The executed_action built when the awaited handler returns or raises
HandlerOutcome(k, outcome) ==
    LET action == k.plist[k.idx]
    IN  IF outcome.raised
        THEN [k EXCEPT
                !.executed = Append(@, [action EXCEPT !.status = FAILED,
                                                      !.error = outcome.value]),
                !.errors = Append(@, <<"Error executing ", ActionType(action),
                                       " action: ", outcome.value>>),
                !.outcomes = Append(@, [idx |-> k.idx, raised |-> TRUE,
                                        value |-> outcome.value])]
        ELSE [k EXCEPT
                !.executed = Append(@, [action EXCEPT !.status = EXECUTED,
                                                      !.result = outcome.value]),
                !.outcomes = Append(@, [idx |-> k.idx, raised |-> FALSE,
                                        value |-> outcome.value])]

\* Finish that records the executed actions on the turn that was current when
\* the call started, and appends that turn
Finish_on_started_turn(c, k) ==
    IF k.turn0 = 0
    THEN [conv |-> c, call |-> [k EXCEPT !.pc = "raised", !.exc = "ValueError"]]
    ELSE LET c1 == [c EXCEPT !.heap[k.turn0].executed_actions = k.executed,
                             !.turns = Append(c.turns, k.turn0),
                             !.current_turn = 0,
                             !.state = AWAITING_USER_INPUT]
         IN  [conv |-> c1,
              call |-> [k EXCEPT
                 !.pc = "returned",
                 !.ret = [NoReturn EXCEPT
                    !.confirmed = TRUE,
                    !.executed_actions = k.executed,
                    !.response =
                        IF k.errors # <<>>
                        THEN <<"Some actions could not be completed: ">>
                               \o Join(k.errors)
                        ELSE SuccessMessage,
                    !.conversation_state = c1.state]]]

\* process_confirmation from set_executed_actions to the return
Finish(c, k) ==
    LET r == set_executed_actions(c, k.executed)
    IN  IF r.raised
        THEN [conv |-> c, call |-> [k EXCEPT !.pc = "raised", !.exc = "ValueError"]]
        ELSE [conv |-> r.conv,
              call |-> [k EXCEPT
                 !.pc = "returned",
                 !.ret = [NoReturn EXCEPT
                    !.confirmed = TRUE,
                    !.executed_actions = k.executed,
                    !.response =
                        IF k.errors # <<>>
                        THEN <<"Some actions could not be completed: ">>
                               \o Join(k.errors)
                        ELSE SuccessMessage,
                    !.conversation_state = r.conv.state]]]

\* the loop from element i on, and what follows it when it runs to its end
Continue(c, k, i) ==
    LET k1 == Dispatch(k, i)
    IN  IF k1.pc = "finish" THEN Finish(c, k1) ELSE [conv |-> c, call |-> k1]

\* process_confirmation after the early return: from executed_actions = []
\* to the first await (or the end)
Execute(c, k) ==
    IF c.current_turn # 0 /\ Truthy(CurrentTurn(c).proposed_actions)
    THEN IF ~Iterable(CurrentTurn(c).proposed_actions)
         \* for action in <a number> raises TypeError outside the try
         THEN [conv |-> c, call |-> [k EXCEPT !.pc = "raised", !.exc = "TypeError"]]
         ELSE Continue(c,
                       [k EXCEPT !.plist = CurrentTurn(c).proposed_actions.items],
                       1)
    ELSE Finish(c, k)

\* process_confirmation with the confirmed argument not honoured: the
\* confirmation is recorded as given and the actions are executed anyway
process_confirmation_unconditional(c, k, confirmed, action_handlers) ==
    LET r == set_confirmation(c, TRUE)
        k0 == [k EXCEPT !.kind = "confirm", !.confirmed = confirmed,
                        !.handlers = action_handlers,
                        !.turn0 = c.current_turn]
    IN  IF r.raised
        THEN [conv |-> c, call |-> [k0 EXCEPT !.pc = "raised", !.exc = "ValueError"]]
        ELSE Execute(r.conv, k0)

\* process_confirmation without the early return of a rejection
process_confirmation_no_early_return(c, k, confirmed, action_handlers) ==
    LET r == set_confirmation(c, confirmed)
        k0 == [k EXCEPT !.kind = "confirm", !.confirmed = confirmed,
                        !.handlers = action_handlers,
                        !.turn0 = c.current_turn]
    IN  IF r.raised
        THEN [conv |-> c, call |-> [k0 EXCEPT !.pc = "raised", !.exc = "ValueError"]]
        ELSE Execute(r.conv, k0)

\* process_confirmation from its start to its first await (or its end)
process_confirmation(c, k, confirmed, action_handlers) ==
    LET r == set_confirmation(c, confirmed)
        k0 == [k EXCEPT !.kind = "confirm", !.confirmed = confirmed,
                        !.handlers = action_handlers,
                        !.turn0 = c.current_turn]
    IN  IF r.raised
        THEN [conv |-> c, call |-> [k0 EXCEPT !.pc = "raised", !.exc = "ValueError"]]
        ELSE IF ~confirmed
        THEN [conv |-> r.conv,
              call |-> [k0 EXCEPT
                 !.pc = "returned",
                 !.ret = [NoReturn EXCEPT
                    !.confirmed = FALSE,
                    !.executed_actions = <<>>,
                    !.response = CancelledMessage,
                    !.conversation_state = r.conv.state]]]
        ELSE Execute(r.conv, k0)

\* process_confirmation from the return of the awaited handler on
process_confirmation_resume(c, k, outcome) ==
    Continue(c, HandlerOutcome(k, outcome), k.idx + 1)

\* an item of the context list handed to the reasoning service
ContextItem(type, content) == [type |-> type, content |-> content]

\* process_user_input from its start to  await self.ai_manager.query(...).
\* context is the caller's list object (caller_context) or None; the result
\* carries the caller's list after the step.
process_user_input(c, k, user_input, passes_context, caller_context) ==
    LET c1 == start_new_turn(c, user_input).conv
        conversation_history == get_context_for_ai(c1, DefaultMaxTurns)
        \* merged_context = context or []
        shares == passes_context /\ caller_context # <<>>
        merged0 == IF shares THEN caller_context ELSE <<>>
        merged == IF conversation_history # <<>>
                  THEN Append(merged0, ContextItem("conversation_history",
                                                   conversation_history))
                  ELSE merged0
    IN  [conv |-> c1,
         ctx |-> IF shares THEN merged ELSE caller_context,
         call |-> [k EXCEPT !.kind = "input", !.pc = "query",
                            !.user_input = user_input,
                            !.turn0 = c1.current_turn,
                            !.merged_context = merged,
                            !.shares_context = shares]]

\* process_user_input_resume that raises when the result has an error key
process_user_input_resume_raises_on_error(c, k, result) ==
    LET k0 == [k EXCEPT !.result = result]
        extracted == _extract_actions_from_response(result.response)
        response_text == extracted[1]
        proposed_actions == extracted[2]
        r == set_proposed_actions(c, response_text, proposed_actions)
    IN  IF result.error # Absent
        THEN [conv |-> c, call |-> [k0 EXCEPT !.pc = "raised", !.exc = "ServiceError"]]
        ELSE IF r.raised
        THEN [conv |-> c, call |-> [k0 EXCEPT !.pc = "raised", !.exc = "ValueError"]]
        ELSE IF ~HasLen(proposed_actions)
        THEN [conv |-> r.conv,
              call |-> [k0 EXCEPT !.pc = "raised", !.exc = "TypeError"]]
        ELSE [conv |-> r.conv,
              call |-> [k0 EXCEPT
                 !.pc = "returned",
                 !.ret = [NoReturn EXCEPT
                    !.response = response_text,
                    !.proposed_actions = proposed_actions,
                    !.requires_confirmation = Len(proposed_actions.items) > 0,
                    !.conversation_state = r.conv.state]]]

\* process_user_input_resume that asks for a confirmation in every result
process_user_input_resume_always_requires(c, k, result) ==
    LET k0 == [k EXCEPT !.result = result]
        extracted == _extract_actions_from_response(result.response)
        response_text == extracted[1]
        proposed_actions == extracted[2]
        r == set_proposed_actions(c, response_text, proposed_actions)
    IN  IF r.raised
        THEN [conv |-> c, call |-> [k0 EXCEPT !.pc = "raised", !.exc = "ValueError"]]
        ELSE IF ~HasLen(proposed_actions)
        THEN [conv |-> r.conv,
              call |-> [k0 EXCEPT !.pc = "raised", !.exc = "TypeError"]]
        ELSE [conv |-> r.conv,
              call |-> [k0 EXCEPT
                 !.pc = "returned",
                 !.ret = [NoReturn EXCEPT
                    !.response = response_text,
                    !.proposed_actions = proposed_actions,
                    !.requires_confirmation = TRUE,
                    !.conversation_state = r.conv.state]]]

\* process_user_input from the return of the query on; the code reads
\* result["response"] only
process_user_input_resume(c, k, result) ==
    LET k0 == [k EXCEPT !.result = result]
        extracted == _extract_actions_from_response(result.response)
        response_text == extracted[1]
        proposed_actions == extracted[2]
        r == set_proposed_actions(c, response_text, proposed_actions)
    IN  IF r.raised
        THEN [conv |-> c, call |-> [k0 EXCEPT !.pc = "raised", !.exc = "ValueError"]]
        ELSE IF ~HasLen(proposed_actions)
        \* len(proposed_actions) raises TypeError
        THEN [conv |-> r.conv,
              call |-> [k0 EXCEPT !.pc = "raised", !.exc = "TypeError"]]
        ELSE [conv |-> r.conv,
              call |-> [k0 EXCEPT
                 !.pc = "returned",
                 !.ret = [NoReturn EXCEPT
                    !.response = response_text,
                    !.proposed_actions = proposed_actions,
                    !.requires_confirmation = Len(proposed_actions.items) > 0,
                    !.conversation_state = r.conv.state]]]

-----------------------------------------------------------------------------
(* The environment: callers, the reasoning service and the handlers        *)

Slots == {"a", "b"}

UserInputs == {"u1", "u2"}

\* result["response"] of AIManager.query: prose with a fenced json block,
\* plain prose, or the text of the error result
Fenced(json_text) == <<"prose", WS, FENCE, "json", WS, json_text, WS, FENCE>>
\* str(e) of the exception AIManager.query caught, and the response text
\* it builds from it
ErrorText == "api error"
ErrorResponse == <<"An error occurred: ", ErrorText>>
RawResponses ==
    { Fenced("{proposed_actions:[note,concept]}"),
      Fenced("{proposed_actions:[concept,concept]}"),
      Fenced("{proposed_actions:[untyped,note]}"),
      Fenced("{proposed_actions:['x',note]}"),
      Fenced("{proposed_actions:5}"),
      Fenced("{proposed_actions:null}"),
      <<"prose">>,
      ErrorResponse }

\* what AIManager.query returns: a response, or the error result
QueryResults ==
    {QueryResult(response, Absent) : response \in RawResponses \ {ErrorResponse}}
       \cup {QueryResult(ErrorResponse, ErrorText)}

\* the action_handlers a caller passes (None and {} behave alike)
Registries ==
    { {}, {"create_note", "unknown"}, {"create_note", "create_concept"} }

\* what an awaited handler does: return its output or raise
Outcomes ==
    { [raised |-> FALSE, value |-> "n1"], [raised |-> TRUE, value |-> "boom"] }

\* the list a caller holds and may pass as context
CallerContext == <<ContextItem("note", <<>>)>>

\* the callers of the registry operations
Clients == {"p", "q"}

\* a conversation_id that is None or the empty string
NoId == ""

\* what a caller has of its latest request: the operation, the identity it
\* passed, the Conversation object the operation found or made (0: none),
\* its outcome and the controller call made for it
NoRequest ==
    [op |-> "none", n |-> 0, conversation_id |-> NoId, conversation |-> 0,
     status |-> "none", call |-> IdleCall]

Init ==
    /\ conv = NewConversation
    /\ calls = [s \in Slots |-> IdleCall]
    /\ ncalls = 0
    /\ ctx = CallerContext
    /\ ops = <<>>
    /\ objects = <<>>
    /\ self_active_conversations = {}
    /\ active_conversations = {}
    /\ requests = [p \in Clients |-> NoRequest]
    /\ nrequests = 0

\* a caller may start a call
CanBegin(s) ==
    /\ ncalls < MaxCalls
    /\ ~InFlight(calls[s])

FreshCall == [IdleCall EXCEPT !.n = ncalls + 1]

\* passes_context: the caller passes its list as context; the route
\* handler of /input passes a new empty list, which is as good as None
BeginInput(s, passes_context) ==
    /\ CanBegin(s)
    /\ \E user_input \in UserInputs :
         LET r == process_user_input(conv, FreshCall, user_input,
                                     passes_context, ctx)
         IN  /\ conv' = r.conv
             /\ ctx' = r.ctx
             /\ calls' = [calls EXCEPT ![s] = r.call]
    /\ ncalls' = ncalls + 1
    /\ UNCHANGED ops
    /\ UNCHANGED registry_vars

ResumeInput(s) ==
    /\ calls[s].pc = "query"
    /\ \E result \in QueryResults :
         LET r == process_user_input_resume(conv, calls[s], result)
         IN  /\ conv' = r.conv
             /\ calls' = [calls EXCEPT ![s] = r.call]
    /\ UNCHANGED <<ncalls, ctx, ops>>
    /\ UNCHANGED registry_vars

\* the awaited query raises (AIManager.query builds the prompt outside its
\* try block; any other client may raise as well): the exception leaves
\* process_user_input at the await
QueryRaises(s) ==
    /\ calls[s].pc = "query"
    /\ calls' = [calls EXCEPT ![s].pc = "raised", ![s].exc = "QueryException"]
    /\ UNCHANGED <<conv, ncalls, ctx, ops>>
    /\ UNCHANGED registry_vars

BeginConfirm(s) ==
    /\ CanBegin(s)
    /\ \E confirmed \in BOOLEAN, action_handlers \in Registries :
         LET r == process_confirmation(conv, FreshCall, confirmed,
                                       action_handlers)
         IN  /\ conv' = r.conv
             /\ calls' = [calls EXCEPT ![s] = r.call]
    /\ ncalls' = ncalls + 1
    /\ UNCHANGED <<ctx, ops>>
    /\ UNCHANGED registry_vars

ResumeHandler(s) ==
    /\ calls[s].pc = "handler"
    /\ \E outcome \in Outcomes :
         LET r == process_confirmation_resume(conv, calls[s], outcome)
         IN  /\ conv' = r.conv
             /\ calls' = [calls EXCEPT ![s] = r.call]
    /\ UNCHANGED <<ncalls, ctx, ops>>
    /\ UNCHANGED registry_vars

\* the caller abandons a suspended call: CancelledError is thrown into the
\* coroutine at its await and leaves it (except Exception does not catch it)
Cancel(s) ==
    /\ InFlight(calls[s])
    /\ calls' = [calls EXCEPT ![s].pc = "cancelled", ![s].exc = "CancelledError"]
    /\ UNCHANGED <<conv, ncalls, ctx, ops>>
    /\ UNCHANGED registry_vars

\* One logical flow per conversation: the caller issues its calls one after
\* the other.
Next ==
    \/ BeginInput("a", FALSE)
    \/ ResumeInput("a")
    \/ QueryRaises("a")
    \/ BeginConfirm("a")
    \/ ResumeHandler("a")
    \/ Cancel("a")

Spec == Init /\ [][Next]_vars

-----------------------------------------------------------------------------
(* Direct use of a Conversation: any sequence of calls of its methods      *)

ResponseTexts == { <<"prose">> }
ProposedValues == { EmptyList, PList(<<NoteAction>>) }
ExecutedValues ==
    { <<>>,
      <<[NoteAction EXCEPT !.status = EXECUTED, !.result = "n1"]>>,
      <<[NoteAction EXCEPT !.status = FAILED, !.error = "boom"]>> }

\* ops: the method calls made so far, each with its user_input argument (""
\* for the other methods) and whether it raised
Did(op, user_input, r) ==
    Append(ops, [op |-> op, user_input |-> user_input, raised |-> r.raised])

CallStartNewTurn ==
    /\ Len(ops) < MaxOps
    /\ \E user_input \in UserInputs :
         LET r == start_new_turn(conv, user_input)
         IN  conv' = r.conv /\ ops' = Did("start_new_turn", user_input, r)
    /\ UNCHANGED <<calls, ncalls, ctx>>
    /\ UNCHANGED registry_vars

CallSetProposedActions ==
    /\ Len(ops) < MaxOps
    /\ \E ai_response \in ResponseTexts, proposed_actions \in ProposedValues :
         LET r == set_proposed_actions(conv, ai_response, proposed_actions)
         IN  conv' = r.conv /\ ops' = Did("set_proposed_actions", "", r)
    /\ UNCHANGED <<calls, ncalls, ctx>>
    /\ UNCHANGED registry_vars

CallSetConfirmation ==
    /\ Len(ops) < MaxOps
    /\ \E confirmed \in BOOLEAN :
         LET r == set_confirmation(conv, confirmed)
         IN  conv' = r.conv
             /\ ops' = Did(IF confirmed THEN "set_confirmation(True)"
                                        ELSE "set_confirmation(False)", "", r)
    /\ UNCHANGED <<calls, ncalls, ctx>>
    /\ UNCHANGED registry_vars

CallSetExecutedActions ==
    /\ Len(ops) < MaxOps
    /\ \E executed_actions \in ExecutedValues :
         LET r == set_executed_actions(conv, executed_actions)
         IN  conv' = r.conv /\ ops' = Did("set_executed_actions", "", r)
    /\ UNCHANGED <<calls, ncalls, ctx>>
    /\ UNCHANGED registry_vars

NextConv ==
    \/ CallStartNewTurn
    \/ CallSetProposedActions
    \/ CallSetConfirmation
    \/ CallSetExecutedActions

SpecConv == Init /\ [][NextConv]_vars

-----------------------------------------------------------------------------
(* Properties of the sequential flow (Spec)                                *)

ConfirmCalls == {s \in Slots : calls[s].kind = "confirm"}

\* the elements of the proposed_actions of the turn that was current when
\* the call started
ProposedAtStart(k) == conv.heap[k.turn0].proposed_actions.items

\* C1: a handler is invoked only inside a process_confirmation call made
\* with confirmed = true, and only for an element of the proposed_actions of
\* the turn that was the current turn when that call started; a turn holds
\* executed actions only if it was confirmed.
C1_HandlerOnlyAfterConfirmation ==
    /\ \A s \in Slots : \A j \in 1..Len(calls[s].invoked) :
          LET k == calls[s]
              inv == k.invoked[j]
          IN  /\ k.kind = "confirm"
              /\ k.confirmed
              /\ k.turn0 # 0
              /\ inv.idx \in 1..Len(ProposedAtStart(k))
              /\ ProposedAtStart(k)[inv.idx] = inv.action
    /\ \A t \in 1..Len(conv.heap) :
          conv.heap[t].executed_actions # <<>> => conv.heap[t].confirmed

\* a third call, a confirmation, has invoked the handlers of both actions of
\* its turn and returned
C1_Witness ==
    \E s \in ConfirmCalls :
       /\ calls[s].n = 3
       /\ calls[s].pc = "returned"
       /\ Len(calls[s].invoked) = 2
       /\ conv.heap[calls[s].turn0].executed_actions # <<>>

\* C2: process_confirmation(confirmed = false) on a conversation with an
\* open current turn invokes no handler and returns confirmed = false, an
\* empty executed_actions list and the fixed cancellation message.
C2_RejectionDispatchesNothing ==
    \A s \in ConfirmCalls :
       (~calls[s].confirmed /\ calls[s].turn0 # 0) =>
          /\ calls[s].pc = "returned"
          /\ calls[s].invoked = <<>>
          /\ calls[s].attempted = <<>>
          /\ calls[s].ret.confirmed = FALSE
          /\ calls[s].ret.executed_actions = <<>>
          /\ calls[s].ret.response = CancelledMessage

\* a rejection of a turn with two proposed actions, both with a handler
C2_Witness ==
    \E s \in ConfirmCalls :
       /\ ~calls[s].confirmed
       /\ calls[s].turn0 # 0
       /\ calls[s].handlers = {"create_note", "create_concept"}
       /\ ProposedAtStart(calls[s]) = <<NoteAction, ConceptAction>>
       /\ calls[s].pc = "returned"

\* a process_confirmation(confirmed = true) call on an open turn that has
\* ended of itself, by returning or by raising
EndedConfirmations ==
    {s \in ConfirmCalls : /\ calls[s].confirmed
                          /\ calls[s].turn0 # 0
                          /\ calls[s].pc \in {"returned", "raised"}}

\* the indices 1 .. n in order
UpTo(n) == [i \in 1..n |-> i]

\* C3: within one process_confirmation(confirmed = true) call every element
\* of the current turn's proposed_actions is attempted exactly once, in
\* order: no failure at element i prevents the dispatch of an element j > i.
C3_EveryActionAttemptedOnce ==
    \A s \in EndedConfirmations :
       calls[s].attempted = UpTo(Len(ProposedAtStart(calls[s])))

\* the outcome the awaited handler of element i had, if it was awaited
OutcomesOf(k, i) ==
    {k.outcomes[j] : j \in {j \in 1..Len(k.outcomes) : k.outcomes[j].idx = i}}

\* the fields an executed entry adds to its action, removed again
Original(entry) ==
    [entry EXCEPT !.status = Absent, !.result = Absent, !.error = Absent]

\* C4: after process_confirmation(confirmed = true) has returned, the
\* returned executed_actions and the executed_actions stored on the closed
\* turn are the same list, with exactly one entry per proposed action, entry
\* i being the outcome of proposed action i.
C4_ExecutedInProposedOrder ==
    \A s \in ConfirmCalls :
       (calls[s].confirmed /\ calls[s].pc = "returned") =>
          LET k == calls[s]
              proposed == ProposedAtStart(k)
              executed == k.ret.executed_actions
          IN  /\ Len(executed) = Len(proposed)
              /\ conv.heap[k.turn0].executed_actions = executed
              /\ \E p \in 1..Len(conv.turns) : conv.turns[p] = k.turn0
              /\ \A i \in 1..Len(executed) :
                    /\ Original(executed[i]) = proposed[i]
                    /\ \A o \in OutcomesOf(k, i) :
                          IF o.raised
                          THEN executed[i].status = FAILED
                               /\ executed[i].error = o.value
                          ELSE executed[i].status = EXECUTED
                               /\ executed[i].result = o.value

\* two different actions, the handler of the first raised and the handler
\* of the second returned
C4_Witness ==
    \E s \in ConfirmCalls :
       /\ calls[s].confirmed
       /\ calls[s].pc = "returned"
       /\ ProposedAtStart(calls[s]) = <<NoteAction, ConceptAction>>
       /\ calls[s].ret.executed_actions[1].status = FAILED
       /\ calls[s].ret.executed_actions[2].status = EXECUTED

\* C5: the entry of a dispatched action has status executed, with the
\* output of its handler as result, exactly when the type of the action is
\* in the handler registry and the handler returned; otherwise it has
\* status failed and an error text.  With a handler for create_note only
\* and proposals [create_note, create_concept] there is one executed entry,
\* which keeps its result, and one failed entry.
C5_StatusReflectsHandler ==
    \A s \in ConfirmCalls :
       LET k == calls[s]
           registered(i) == ActionType(k.plist[i]) \in k.handlers
           returned(i) == \E o \in OutcomesOf(k, i) : ~o.raised
       IN  /\ \A i \in 1..Len(k.executed) :
                IF registered(i) /\ returned(i)
                THEN /\ k.executed[i].status = EXECUTED
                     /\ \A o \in OutcomesOf(k, i) : k.executed[i].result = o.value
                ELSE /\ k.executed[i].status = FAILED
                     /\ k.executed[i].error # Absent
                     /\ k.executed[i].result = Absent
           /\ ( /\ k.pc = "returned"
                /\ k.confirmed
                /\ k.plist = <<NoteAction, ConceptAction>>
                /\ "create_note" \in k.handlers
                /\ "create_concept" \notin k.handlers
                /\ returned(1) )
              => k.ret.executed_actions =
                   << [NoteAction EXCEPT !.status = EXECUTED, !.result = "n1"],
                      [ConceptAction EXCEPT !.status = FAILED,
                                            !.error = "No handler available"] >>

\* the partial failure: a handler for create_note, none for create_concept
C5_Witness ==
    \E s \in ConfirmCalls :
       /\ calls[s].pc = "returned"
       /\ calls[s].plist = <<NoteAction, ConceptAction>>
       /\ calls[s].handlers = {"create_note", "unknown"}
       /\ calls[s].ret.executed_actions[1].status = EXECUTED
       /\ calls[s].ret.executed_actions[1].result = "n1"
       /\ calls[s].ret.executed_actions[2].status = FAILED

\* C6: process_confirmation(confirmed = true) on an open turn, whatever
\* proposed_actions process_user_input attached to it, returns normally
\* with the turn appended to the history, current_turn cleared and state
\* AWAITING_USER_INPUT; it never raises and leaves the conversation
\* EXECUTING with the turn open.
C6_ConfirmationAlwaysCloses ==
    \A s \in EndedConfirmations :
       /\ calls[s].pc = "returned"
       /\ conv.current_turn = 0
       /\ conv.state = AWAITING_USER_INPUT
       /\ \E p \in 1..Len(conv.turns) : conv.turns[p] = calls[s].turn0

\* the step is the start of a process_user_input call, which begins with
\* start_new_turn(user_input)
StartsInput(s) ==
    /\ ncalls' = ncalls + 1
    /\ calls'[s].kind = "input"

\* C8: start_new_turn is possible in every reachable state of the sequential
\* flow, also with a turn left open by a call that raised or was abandoned:
\* it never raises, it creates a new current turn that holds the given
\* user_input and nothing else, it closes the turn that was open, and it
\* leaves the state ANALYZING.
C8_StartNewTurnAlwaysLegal ==
    /\ [](\A u \in UserInputs : ~start_new_turn(conv, u).raised)
    /\ []((ncalls < MaxCalls /\ ~InFlight(calls["a"]))
             => ENABLED BeginInput("a", FALSE))
    /\ [][\A s \in Slots : StartsInput(s) =>
            /\ conv'.state = ANALYZING
            /\ conv'.current_turn = Len(conv.heap) + 1
            /\ Len(conv'.heap) = Len(conv.heap) + 1
            /\ CurrentTurn(conv') = ConversationTurn(calls'[s].user_input)
            /\ CurrentTurn(conv').ai_response = NoneText
            /\ CurrentTurn(conv').proposed_actions = EmptyList
            /\ ~CurrentTurn(conv').confirmed
            /\ CurrentTurn(conv').executed_actions = <<>>
            /\ \A t \in 1..Len(conv.heap) : conv'.heap[t] = conv.heap[t]
      ]_vars

\* a turn was started while the turn of a confirmation that raised, or was
\* abandoned, was still open in state EXECUTING
C8_Witness ==
    /\ conv.state = ANALYZING
    /\ calls["a"].kind = "input"
    /\ calls["a"].n = 3
    /\ Len(conv.turns) = 1
    /\ conv.heap[conv.turns[1]].confirmed
    /\ conv.heap[conv.turns[1]].executed_actions = <<>>
    /\ conv.heap[conv.turns[1]].proposed_actions.items # <<>>

-----------------------------------------------------------------------------
(* Properties of Conversation under any sequence of method calls (SpecConv) *)

\* the method call made by the step, when the step is one
Called(op) == Len(ops') = Len(ops) + 1 /\ ops'[Len(ops')].op = op

\* the state changes of the documented state machine
DocumentedChange(from, to) ==
    \/ <<from, to>> \in
          { <<INITIAL, ANALYZING>>,
            <<ANALYZING, AWAITING_CONFIRMATION>>,
            <<AWAITING_CONFIRMATION, EXECUTING>>,
            <<AWAITING_CONFIRMATION, AWAITING_USER_INPUT>>,
            <<EXECUTING, AWAITING_USER_INPUT>> }
    \/ to = ANALYZING

\* C7: under any sequence of calls of the Conversation methods every change
\* of Conversation.state is one of the documented state machine, a new turn
\* leading to ANALYZING; EXECUTING is entered from AWAITING_CONFIRMATION
\* only and AWAITING_CONFIRMATION from ANALYZING only.
C7_DocumentedStateMachine ==
    [][conv'.state # conv.state => DocumentedChange(conv.state, conv'.state)]_vars

\* what a sequence of method calls gave to start_new_turn
RECURSIVE InputsOf(_)
InputsOf(log) ==
    IF log = <<>> THEN <<>>
    ELSE IF log[1].op = "start_new_turn"
         THEN <<log[1].user_input>> \o InputsOf(Tail(log))
         ELSE InputsOf(Tail(log))

\* no rejection and no execution among the calls
OnlyStarts(log) ==
    \A i \in 1..Len(log) :
       log[i].op \notin {"set_confirmation(False)", "set_executed_actions"}

\* C9: a start_new_turn call made while a turn is open appends that turn,
\* once and at the end of the history, before it opens the new turn; after N
\* start_new_turn calls on a new conversation, with no rejection and no
\* execution, the history has N-1 turns, which hold the first N-1 inputs in
\* the order of the calls.
C9_StartNewTurnClosesOpenTurn ==
    /\ [][(Called("start_new_turn") /\ conv.current_turn # 0) =>
            /\ conv'.turns = Append(conv.turns, conv.current_turn)
            /\ conv'.current_turn # conv.current_turn
            /\ \A t \in 1..Len(conv.heap) : conv'.heap[t] = conv.heap[t]
         ]_vars
    /\ []((OnlyStarts(ops) /\ InputsOf(ops) # <<>>) =>
            LET inputs == InputsOf(ops)
            IN  /\ Len(conv.turns) = Len(inputs) - 1
                /\ \A i \in 1..Len(conv.turns) :
                      conv.heap[conv.turns[i]].user_input = inputs[i])

\* three start_new_turn calls with different inputs, nothing else
C9_Witness ==
    /\ Len(ops) = 3
    /\ \A i \in 1..3 : ops[i].op = "start_new_turn"
    /\ ops[1].user_input # ops[2].user_input
    /\ Len(conv.turns) = 2

\* C10: set_confirmation(false) with an open current turn appends that turn
\* to the history, clears current_turn and yields AWAITING_USER_INPUT, and the
\* turn closed this way has no executed actions.
C10_RejectionClosesTurn ==
    [][(Called("set_confirmation(False)") /\ conv.current_turn # 0) =>
         /\ ~ops'[Len(ops')].raised
         /\ conv'.turns = Append(conv.turns, conv.current_turn)
         /\ conv'.current_turn = 0
         /\ conv'.state = AWAITING_USER_INPUT
         /\ conv'.heap[conv.current_turn].executed_actions = <<>>
         /\ ~conv'.heap[conv.current_turn].confirmed
      ]_vars

\* a turn with proposals was confirmed, then rejected: it is closed, with no
\* executed actions
C10_Witness ==
    /\ Len(ops) >= 2
    /\ ops[Len(ops)].op = "set_confirmation(False)"
    /\ ~ops[Len(ops)].raised
    /\ ops[Len(ops) - 1].op = "set_confirmation(True)"
    /\ conv.current_turn = 0
    /\ conv.state = AWAITING_USER_INPUT
    /\ conv.heap[conv.turns[Len(conv.turns)]].proposed_actions.items # <<>>

\* the step appends turn t to the history
ClosesTurn(t) == conv'.turns = Append(conv.turns, t)

\* a set_confirmation(true) call on an open turn leaves that turn the open
\* current turn, with the history as it was, in state EXECUTING
ConfirmationKeepsTurnOpen ==
    (Called("set_confirmation(True)") /\ conv.current_turn # 0) =>
       /\ ~ops'[Len(ops')].raised
       /\ conv'.current_turn = conv.current_turn
       /\ conv'.turns = conv.turns
       /\ conv'.state = EXECUTING
       /\ conv'.heap[conv.current_turn].confirmed

\* C11 as stated: set_confirmation(true) never closes the turn by itself
\* (after it current_turn is the same open turn, the history is unchanged
\* and state is EXECUTING), and a turn that is confirmed is appended to the
\* history by set_executed_actions only.
C11_ConfirmedClosedOnlyByExecution ==
    /\ [][ConfirmationKeepsTurnOpen]_vars
    /\ [][\A t \in 1..Len(conv.heap) :
            (ClosesTurn(t) /\ conv'.heap[t].confirmed)
               => Called("set_executed_actions")]_vars

\* C11: set_confirmation(true) never closes the turn by itself (after it
\* current_turn is the same open turn, the history is unchanged and state is
\* EXECUTING); a confirmed turn is appended to the history by
\* set_executed_actions or, when a new turn is started over it, by
\* start_new_turn.
C11_ConfirmationKeepsTurnOpen ==
    /\ [][ConfirmationKeepsTurnOpen]_vars
    /\ [][\A t \in 1..Len(conv.heap) :
            (ClosesTurn(t) /\ conv'.heap[t].confirmed)
               => (Called("set_executed_actions") \/ Called("start_new_turn"))
         ]_vars

\* a second turn was confirmed: it is open, the history holds the first
\* turn only
C11_Witness ==
    /\ ops # <<>>
    /\ ops[Len(ops)].op = "set_confirmation(True)"
    /\ ~ops[Len(ops)].raised
    /\ conv.current_turn = 2
    /\ conv.turns = <<1>>
    /\ conv.state = EXECUTING
    /\ CurrentTurn(conv).confirmed
    /\ CurrentTurn(conv).proposed_actions.items # <<>>

\* C12: set_executed_actions with an open current turn always stores the
\* given list on that turn, appends the turn to the history, clears
\* current_turn and sets state AWAITING_USER_INPUT, whether the list holds
\* failed entries, only executed entries, or nothing; nothing else changes.
C12_ExecutionAlwaysCloses ==
    conv.current_turn # 0 =>
       \A executed_actions \in ExecutedValues :
          LET r == set_executed_actions(conv, executed_actions)
              t == conv.current_turn
          IN  /\ ~r.raised
              /\ r.conv.heap[t] =
                    [conv.heap[t] EXCEPT !.executed_actions = executed_actions]
              /\ r.conv.turns = Append(conv.turns, t)
              /\ r.conv.current_turn = 0
              /\ r.conv.state = AWAITING_USER_INPUT
              /\ Len(r.conv.heap) = Len(conv.heap)
              /\ \A u \in 1..Len(conv.heap) :
                    u # t => r.conv.heap[u] = conv.heap[u]

\* a turn was closed by set_executed_actions with a failed entry, from a
\* state other than EXECUTING
C12_Witness ==
    /\ Len(ops) >= 2
    /\ ops[Len(ops)].op = "set_executed_actions"
    /\ ~ops[Len(ops)].raised
    /\ ops[Len(ops) - 1].op = "set_proposed_actions"
    /\ conv.current_turn = 0
    /\ conv.state = AWAITING_USER_INPUT
    /\ conv.turns # <<>>
    /\ LET closed == conv.heap[conv.turns[Len(conv.turns)]]
       IN  /\ closed.executed_actions # <<>>
           /\ closed.executed_actions[1].status = FAILED

-----------------------------------------------------------------------------
(* Further properties of the sequential flow (Spec)                        *)

\* the step is the start of a process_confirmation call
StartsConfirm(s) ==
    /\ ncalls' = ncalls + 1
    /\ calls'[s].kind = "confirm"

\* the call failed with ValueError("No active conversation turn")
NoActiveTurn(r) == r.raised

\* C13: with no open current turn (state INITIAL, or after a rejection or an
\* execution closed the turn) set_proposed_actions, set_confirmation and
\* set_executed_actions each fail with the no-active-turn error and leave
\* turns, current_turn and state unchanged; so a process_confirmation call
\* made then fails with that error, invokes no handler and changes nothing.
C13_NoActiveTurn ==
    /\ [](conv.current_turn = 0 =>
            /\ \A text \in ResponseTexts, pa \in ProposedValues :
                  LET r == set_proposed_actions(conv, text, pa)
                  IN  NoActiveTurn(r) /\ r.conv = conv
            /\ \A confirmed \in BOOLEAN :
                  LET r == set_confirmation(conv, confirmed)
                  IN  NoActiveTurn(r) /\ r.conv = conv
            /\ \A executed_actions \in ExecutedValues :
                  LET r == set_executed_actions(conv, executed_actions)
                  IN  NoActiveTurn(r) /\ r.conv = conv)
    /\ [](\A s \in ConfirmCalls :
            calls[s].turn0 = 0 =>
               /\ calls[s].pc = "raised"
               /\ calls[s].exc = "ValueError"
               /\ calls[s].invoked = <<>>
               /\ calls[s].attempted = <<>>)
    /\ [][\A s \in Slots :
            (StartsConfirm(s) /\ conv.current_turn = 0) => conv' = conv]_vars

\* a second process_confirmation, made after the first one executed the
\* actions of the only turn, failed
C13_Witness ==
    \E s \in ConfirmCalls :
       /\ calls[s].n = 3
       /\ calls[s].confirmed
       /\ calls[s].handlers # {}
       /\ calls[s].turn0 = 0
       /\ calls[s].pc = "raised"
       /\ conv.turns = <<1>>
       /\ conv.heap[1].executed_actions # <<>>
       /\ conv.state = AWAITING_USER_INPUT

\* a process_user_input call whose query returned the error result
FailedQueries ==
    {s \in Slots : calls[s].kind = "input" /\ calls[s].result.error # Absent}

\* C14: when the query of process_user_input returns a result with an error
\* key, the call does not raise, the turn it started stays the open current
\* turn (it is not in the history) and the failure message is the
\* ai_response of that turn.
C14_ServiceErrorKeepsTurnOpen ==
    \A s \in FailedQueries :
       LET k == calls[s]
       IN  /\ k.pc = "returned"
           /\ conv.current_turn = k.turn0
           /\ \A p \in 1..Len(conv.turns) : conv.turns[p] # k.turn0
           /\ CurrentTurn(conv).ai_response = k.result.response
           /\ CurrentTurn(conv).ai_response = ErrorResponse
           /\ k.ret.response = ErrorResponse

\* the query of the second turn of a conversation failed
C14_Witness ==
    \E s \in FailedQueries :
       /\ calls[s].n = 3
       /\ calls[s].pc = "returned"
       /\ conv.turns = <<1>>
       /\ conv.current_turn = 2
       /\ CurrentTurn(conv).ai_response = <<"An error occurred: ", ErrorText>>

\* C15: when the query of process_user_input returns a result with an error
\* key, the conversation state after the call is ANALYZING or ERROR, never
\* AWAITING_CONFIRMATION.
C15_ServiceErrorLeavesAnalyzing ==
    \A s \in FailedQueries :
       calls[s].pc \in {"returned", "raised"} =>
          /\ conv.state \in {ANALYZING, ERROR}
          /\ conv.state # AWAITING_CONFIRMATION

\* a call ended by a failure that is not the failure of one action: the
\* awaited query raised, or the value under proposed_actions could not be
\* measured or iterated
CatastrophicFailures ==
    {s \in Slots : /\ calls[s].pc = "raised"
                   /\ calls[s].exc \in {"QueryException", "TypeError"}
                   /\ calls[s].attempted = <<>>}

\* C16: the state ERROR is reachable: a catastrophic failure of the
\* reasoning-service call or of the dispatch setup leaves
\* Conversation.state = ERROR, and from ERROR a start_new_turn leads back to
\* ANALYZING.
C16_CatastrophicFailureSetsError ==
    /\ \A s \in CatastrophicFailures : conv.state = ERROR
    /\ conv.state = ERROR =>
          \A u \in UserInputs : start_new_turn(conv, u).conv.state = ANALYZING

\* the process_user_input calls that returned
ReturnedInputs ==
    {s \in Slots : calls[s].kind = "input" /\ calls[s].pc = "returned"}

\* C17: a process_user_input call that returns reports
\* requires_confirmation = true exactly when the returned proposed_actions
\* is not empty; with zero proposed actions it still returns, reporting the
\* conversation state; the returned proposed_actions and response are the
\* ones stored on the current turn.
C17_RequiresConfirmationIffProposals ==
    \A s \in ReturnedInputs :
       LET k == calls[s]
       IN  /\ k.ret.requires_confirmation <=> k.ret.proposed_actions.items # <<>>
           /\ k.ret.conversation_state = conv.state
           /\ k.ret.conversation_state # Absent
           /\ conv.current_turn = k.turn0
           /\ CurrentTurn(conv).proposed_actions = k.ret.proposed_actions
           /\ CurrentTurn(conv).ai_response = k.ret.response

\* a response without a fenced block: no proposed actions, no confirmation
\* asked for, the state reported
C17_Witness ==
    \E s \in ReturnedInputs :
       /\ calls[s].result.response = <<"prose">>
       /\ calls[s].ret.proposed_actions = EmptyList
       /\ ~calls[s].ret.requires_confirmation
       /\ calls[s].ret.conversation_state = AWAITING_CONFIRMATION
       /\ CurrentTurn(conv).ai_response = <<"prose">>

-----------------------------------------------------------------------------
(* One process_user_input call on a new conversation, the reasoning        *)
(* service answering with any text of at most MaxTokens tokens             *)

\* the tokens of a response text
TextTokens ==
    {FENCE, "json", WS, "prose", "{proposed_actions:[note]}",
     "{proposed_actions:[note,concept]}", "{other:1}", "5"}

\* the texts of at most n tokens
Texts(n) == UNION {[1..m -> TextTokens] : m \in 0..n}

BeginFirstInput(s) ==
    /\ ncalls = 0
    /\ BeginInput(s, FALSE)

ResumeInputText(s) ==
    /\ calls[s].pc = "query"
    /\ \E text \in Texts(MaxTokens) :
         LET r == process_user_input_resume(conv, calls[s],
                                            QueryResult(text, Absent))
         IN  /\ conv' = r.conv
             /\ calls' = [calls EXCEPT ![s] = r.call]
    /\ UNCHANGED <<ncalls, ctx, ops>>
    /\ UNCHANGED registry_vars

NextExtract ==
    \/ BeginFirstInput("a")
    \/ ResumeInputText("a")

SpecExtract == Init /\ [][NextExtract]_vars

-----------------------------------------------------------------------------
(* Properties of the extractor (SpecExtract)                               *)

\* the process_user_input calls whose query has returned
AnsweredInputs ==
    {s \in Slots : calls[s].kind = "input" /\ calls[s].pc \in {"returned", "raised"}}

\* the raw response of a call
Raw(s) == calls[s].result.response

\* the positions of a json-tagged opening fence
OpeningFences(text) ==
    {i \in 1..Len(text) : /\ i < Len(text)
                          /\ text[i] = FENCE
                          /\ text[i + 1] = "json"}

\* the text holds a json-tagged fenced block: an opening fence with a
\* fence after it
HasBlock(text) ==
    \E i \in OpeningFences(text) : \E j \in 1..Len(text) :
       j > i + 1 /\ text[j] = FENCE

\* the text between the opening fence at position i and the fence at
\* position j, trimmed
Between(text, i, j) == Strip(SubSeq(text, i + 2, j - 1))

\* the text of the first block of a text that has one
FirstBlock(text) ==
    LET i == CHOOSE i \in OpeningFences(text) :
                \A h \in OpeningFences(text) : i <= h
        j == CHOOSE j \in 1..Len(text) :
                /\ j > i + 1 /\ text[j] = FENCE
                /\ \A h \in (i + 2)..(j - 1) : text[h] # FENCE
    IN  Between(text, i, j)

\* C18: for a raw response without a json-tagged fenced block (no opening
\* fence, or an opening fence with no closing fence) the extractor returns
\* the raw response as it is, not trimmed, and an empty action list.
C18_NoBlockReturnsRaw ==
    \A s \in AnsweredInputs :
       ~HasBlock(Raw(s)) =>
          /\ _extract_actions_from_response(Raw(s)) = <<Raw(s), EmptyList>>
          /\ calls[s].pc = "returned"
          /\ calls[s].ret.response = Raw(s)
          /\ calls[s].ret.proposed_actions = EmptyList
          /\ CurrentTurn(conv).ai_response = Raw(s)

\* a response with white space at both ends and an opening fence that is
\* never closed
C18_Witness ==
    \E s \in AnsweredInputs :
       /\ Raw(s) = <<WS, FENCE, "json", "{proposed_actions:[note]}", WS>>
       /\ calls[s].ret.response = Raw(s)
       /\ calls[s].ret.proposed_actions = EmptyList

\* C19: when the first json-tagged fenced block holds text that is not
\* valid JSON, the extractor raises nothing and returns the raw response
\* unchanged with no actions, so process_user_input completes with zero
\* proposed actions and requires_confirmation = false.
C19_MalformedJsonFallsBack ==
    \A s \in AnsweredInputs :
       (HasBlock(Raw(s)) /\ ~json_loads(FirstBlock(Raw(s))).valid) =>
          /\ _extract_actions_from_response(Raw(s)) = <<Raw(s), EmptyList>>
          /\ calls[s].pc = "returned"
          /\ calls[s].ret.response = Raw(s)
          /\ calls[s].ret.proposed_actions = EmptyList
          /\ ~calls[s].ret.requires_confirmation
          /\ CurrentTurn(conv).proposed_actions = EmptyList

\* a block that holds prose, with white space before the block
C19_Witness ==
    \E s \in AnsweredInputs :
       /\ Raw(s) = <<WS, FENCE, "json", "prose", FENCE>>
       /\ calls[s].pc = "returned"
       /\ calls[s].ret.response = Raw(s)
       /\ ~calls[s].ret.requires_confirmation

\* C20: when the fenced block parses as valid JSON but has no
\* proposed_actions key, the extractor returns the raw response unchanged,
\* still holding the fenced block, and an empty action list.
C20_MissingKeyFallsBack ==
    \A s \in AnsweredInputs :
       LET block == json_loads(FirstBlock(Raw(s)))
       IN  (HasBlock(Raw(s)) /\ block.valid /\ block.top = "object"
               /\ ~block.has_key) =>
              /\ _extract_actions_from_response(Raw(s)) = <<Raw(s), EmptyList>>
              /\ calls[s].ret.response = Raw(s)
              /\ HasBlock(calls[s].ret.response)
              /\ calls[s].ret.proposed_actions = EmptyList

\* C22: when the response holds one json-tagged fenced block with a valid
\* object whose proposed_actions is a list, the extractor returns that list
\* (same elements, same order, fields unchanged) and, as display text, the
\* raw response with the whole block removed and the white space at its
\* ends trimmed; the display text holds no block.
C22_BlockExtractedAndRemoved ==
    \A s \in AnsweredInputs :
       LET raw == Raw(s)
           block == json_loads(FirstBlock(raw))
           i == CHOOSE i \in OpeningFences(raw) : TRUE
           j == CHOOSE j \in 1..Len(raw) :
                   /\ j > i + 1 /\ raw[j] = FENCE
                   /\ \A h \in (i + 2)..(j - 1) : raw[h] # FENCE
           display == Strip(SubSeq(raw, 1, i - 1) \o SubSeq(raw, j + 1, Len(raw)))
       IN  ( /\ HasBlock(raw)
             /\ Cardinality(OpeningFences(raw)) = 1
             /\ block.valid /\ block.top = "object" /\ block.has_key
             /\ block.value.kind = "list" ) =>
              /\ _extract_actions_from_response(raw) = <<display, block.value>>
              /\ calls[s].pc = "returned"
              /\ calls[s].ret.response = display
              /\ calls[s].ret.proposed_actions = block.value
              /\ CurrentTurn(conv).proposed_actions = block.value
              /\ OpeningFences(calls[s].ret.response) = {}

\* prose, then a block with two actions
C22_Witness ==
    \E s \in AnsweredInputs :
       /\ Raw(s) = <<"prose", FENCE, "json", "{proposed_actions:[note,concept]}",
                     FENCE>>
       /\ calls[s].ret.response = <<"prose">>
       /\ calls[s].ret.proposed_actions = PList(<<NoteAction, ConceptAction>>)

-----------------------------------------------------------------------------
(* Further properties of the sequential flow (Spec)                        *)

\* the value under the proposed_actions key of the block of a response is
\* no list
WrongTypedProposals(text) ==
    /\ HasBlock(text)
    /\ LET block == json_loads(FirstBlock(text))
       IN  block.valid /\ block.has_key /\ block.value.kind # "list"

\* C21: when the block parses as JSON but the value under proposed_actions
\* is no list of action records (null, a number, a string, an object), the
\* extractor returns the raw response and no actions, process_user_input
\* completes normally with an empty proposed_actions list, and the value is
\* never stored as the proposed_actions of the turn.
C21_WrongTypeFallsBack ==
    \A s \in AnsweredInputs :
       WrongTypedProposals(Raw(s)) =>
          /\ _extract_actions_from_response(Raw(s)) = <<Raw(s), EmptyList>>
          /\ calls[s].pc = "returned"
          /\ calls[s].ret.proposed_actions = EmptyList
          /\ conv.heap[calls[s].turn0].proposed_actions = EmptyList

\* the text of an error field as a sequence of tokens
ErrorTokens(error) == <<error>>

\* C23: an action whose type is not in the handler registry (or when no
\* registry is given) has no handler invoked and an executed entry with
\* status failed and the error "No handler available for action type: "
\* followed by the type of the action.
C23_MissingHandlerError ==
    \A s \in ConfirmCalls :
       LET k == calls[s]
       IN  \A i \in 1..Len(k.executed) :
              ActionType(k.plist[i]) \notin k.handlers =>
                 /\ \A j \in 1..Len(k.invoked) : k.invoked[j].idx # i
                 /\ k.executed[i].status = FAILED
                 /\ ErrorTokens(k.executed[i].error) =
                       <<"No handler available for action type: ",
                         ActionType(k.plist[i])>>

\* the elements of a sequence, each kept where it comes first
RECURSIVE Distinct(_)
Distinct(seq) ==
    IF seq = <<>> THEN <<>>
    ELSE LET front == SubSeq(seq, 1, Len(seq) - 1)
             last == seq[Len(seq)]
         IN  IF \E i \in 1..Len(front) : front[i] = last
             THEN Distinct(front)
             ELSE Append(Distinct(front), last)

\* C24: the response of process_confirmation(true) is the fixed success
\* message exactly when no executed entry has status failed; otherwise it
\* lists the distinct failure reasons, each once, joined by "; ".
C24_ResponseListsDistinctReasons ==
    \A s \in ConfirmCalls :
       LET k == calls[s]
           failed == {i \in 1..Len(k.ret.executed_actions) :
                         k.ret.executed_actions[i].status = FAILED}
       IN  (k.confirmed /\ k.pc = "returned") =>
              /\ k.ret.response = SuccessMessage <=> failed = {}
              /\ failed # {} =>
                    k.ret.response = <<"Some actions could not be completed: ">>
                                        \o Join(Distinct(k.errors))

-----------------------------------------------------------------------------
(* One turn whose actions carry any payload field, and its confirmations   *)

\* results of the query whose actions have, or have not, a field that the
\* executed entry also writes
DispatchResults ==
    { QueryResult(Fenced("{proposed_actions:[draft,concept]}"), Absent),
      QueryResult(Fenced("{proposed_actions:[note,concept]}"), Absent) }

ResumeInputDispatch(s) ==
    /\ calls[s].pc = "query"
    /\ \E result \in DispatchResults :
         LET r == process_user_input_resume(conv, calls[s], result)
         IN  /\ conv' = r.conv
             /\ calls' = [calls EXCEPT ![s] = r.call]
    /\ UNCHANGED <<ncalls, ctx, ops>>
    /\ UNCHANGED registry_vars

NextDispatch ==
    \/ BeginFirstInput("a")
    \/ ResumeInputDispatch("a")
    \/ BeginConfirm("a")
    \/ ResumeHandler("a")

SpecDispatch == Init /\ [][NextDispatch]_vars

\* the keys an action dict of the model may have
PayloadFields == {"type", "content", "status", "result", "error"}

\* C25: dispatch never changes the proposed actions: after
\* process_confirmation(true) the proposed_actions of the closed turn are
\* what they were before the call, and each executed entry holds every
\* field of its action with the value it had, plus status and result or
\* error.
C25_DispatchPreservesActions ==
    \A s \in ConfirmCalls :
       LET k == calls[s]
       IN  (k.confirmed /\ k.pc = "returned") =>
              /\ conv.heap[k.turn0].proposed_actions.items = k.plist
              /\ Len(k.ret.executed_actions) = Len(k.plist)
              /\ \A i \in 1..Len(k.plist) :
                    LET action == k.plist[i]
                        entry == k.ret.executed_actions[i]
                    IN  /\ \A f \in PayloadFields :
                              action[f] # Absent => entry[f] = action[f]
                        /\ entry.status \in {EXECUTED, FAILED}
                        /\ entry.result # Absent \/ entry.error # Absent

-----------------------------------------------------------------------------
(* Further properties of Conversation under any sequence of method calls   *)
(* (SpecConv)                                                              *)

\* the method call made by the step returned normally
Succeeded(op) == Called(op) /\ ~ops'[Len(ops')].raised

\* C26: under any sequence of Conversation operations the fields of a turn
\* are populated in the order input, response and proposals, confirmed,
\* executed actions, and none is set twice: ai_response and
\* proposed_actions once, confirmed at most once and never from true back
\* to false, executed_actions only on a turn whose confirmed flag is true.
C26_FieldsSetOnceInOrder ==
    /\ [][Succeeded("set_proposed_actions") =>
            /\ CurrentTurn(conv).ai_response = NoneText
            /\ ~CurrentTurn(conv).confirmed]_vars
    /\ [][(Succeeded("set_confirmation(True)")
              \/ Succeeded("set_confirmation(False)")) =>
            /\ CurrentTurn(conv).ai_response # NoneText
            /\ ~CurrentTurn(conv).confirmed]_vars
    /\ [][\A t \in 1..Len(conv.heap) :
            conv.heap[t].confirmed => conv'.heap[t].confirmed]_vars
    /\ [][Succeeded("set_executed_actions") =>
            CurrentTurn(conv).confirmed]_vars

\* C27: every turn of the history has a timestamp, assigned when the turn
\* was appended (by start_new_turn, by a rejection or by
\* set_executed_actions); the open current turn has none.
C27_ClosedTurnsHaveTimestamp ==
    /\ \A p \in 1..Len(conv.turns) :
          conv.heap[conv.turns[p]].timestamp # Absent
    /\ conv.current_turn # 0 => CurrentTurn(conv).timestamp = Absent

-----------------------------------------------------------------------------
(* Overlapping calls on one conversation: two callers, each issuing its    *)
(* calls one after the other; a call of one may start while a call of the  *)
(* other is suspended at an await                                          *)

\* results of the query in the overlapping flow
OverlapResults ==
    { QueryResult(Fenced("{proposed_actions:[note,concept]}"), Absent),
      QueryResult(<<"prose">>, Absent) }

ResumeInputOverlap(s) ==
    /\ calls[s].pc = "query"
    /\ \E result \in OverlapResults :
         LET r == process_user_input_resume(conv, calls[s], result)
         IN  /\ conv' = r.conv
             /\ calls' = [calls EXCEPT ![s] = r.call]
    /\ UNCHANGED <<ncalls, ctx, ops>>
    /\ UNCHANGED registry_vars

NextOverlap ==
    \E s \in Slots :
       \/ BeginInput(s, FALSE)
       \/ ResumeInputOverlap(s)
       \/ BeginConfirm(s)
       \/ ResumeHandler(s)

SpecOverlap == Init /\ [][NextOverlap]_vars

\* C28: the history is append-only and closed turns are immutable: once a
\* turn is in the history no later step (of a process_confirmation that was
\* in flight when the turn was closed, too) changes a field of it, removes
\* it, moves it or appends it a second time.
C28_HistoryAppendOnly ==
    /\ [][/\ Len(conv'.turns) >= Len(conv.turns)
          /\ \A p \in 1..Len(conv.turns) :
                /\ conv'.turns[p] = conv.turns[p]
                /\ conv'.heap[conv.turns[p]] = conv.heap[conv.turns[p]]
         ]_vars
    /\ [](\A p, q \in 1..Len(conv.turns) :
            conv.turns[p] = conv.turns[q] => p = q)

\* a confirmation was suspended in a handler when a new input closed its
\* turn; it has then run to its end
C28_Witness ==
    \E s \in ConfirmCalls :
       /\ calls[s].confirmed
       /\ calls[s].invoked # <<>>
       /\ calls[s].pc \in {"returned", "raised"}
       /\ calls[s].turn0 = 1
       /\ Len(conv.heap) = 2
       /\ conv.turns[1] = 1


-----------------------------------------------------------------------------
(* The registries of active conversations: self.active_conversations of a  *)
(* controller, and active_conversations of the routes module               *)

\* A dict as the set of its items
Keys(d) == {e.key : e \in d}
Get(d, key) == (CHOOSE e \in d : e.key = key).value
\* d[key] = value
SetItem(d, key, value) ==
    {e \in d : e.key # key} \cup {[key |-> key, value |-> value]}
\* del d[key]
DelItem(d, key) == {e \in d : e.key # key}

\* Conversation(conversation_id): a new object, a position in objects
Conversation(conversation_id) ==
    [conversation_id |-> conversation_id, conv |-> NewConversation]

\* get_or_create_conversation that makes a new Conversation in every call
get_or_create_conversation_always_creates(registry, objs, conversation_id) ==
    [registry |-> IF conversation_id # NoId
                  THEN SetItem(registry, conversation_id, Len(objs) + 1)
                  ELSE registry,
     objects |-> Append(objs, Conversation(conversation_id)),
     conversation |-> Len(objs) + 1]

\* get_or_create_conversation: a synchronous method, one step of the event
\* loop
get_or_create_conversation(registry, objs, conversation_id) ==
    IF conversation_id # NoId /\ conversation_id \in Keys(registry)
    THEN [registry |-> registry, objects |-> objs,
          conversation |-> Get(registry, conversation_id)]
    ELSE [registry |-> IF conversation_id # NoId
                       THEN SetItem(registry, conversation_id, Len(objs) + 1)
                       ELSE registry,
          objects |-> Append(objs, Conversation(conversation_id)),
          conversation |-> Len(objs) + 1]

\* str(uuid.uuid4()) of the n-th Conversation object: a new identity
uuid4(n) == "uuid-" \o ToString(n)

\* the identities the callers of the controller and the clients of the
\* routes pass
ControllerIds == {"c1", "c2"}
RouteIds == {uuid4(n) : n \in 1..MaxObjects}

\* the operations of a caller that holds the Conversation it got from
\* get_or_create_conversation
ControllerOps ==
    {"get_or_create_conversation", "controller.process_user_input",
     "controller.process_confirmation"}

\* the action_handlers of the /confirm route
RouteHandlers == {"create_note", "create_concept", "create_relationship"}

RegistryResults ==
    { QueryResult(Fenced("{proposed_actions:[note]}"), Absent) }

CanRequest(p) ==
    /\ nrequests < MaxRequests
    /\ requests[p].status # "pending"

Holds(p) ==
    /\ requests[p].op \in ControllerOps
    /\ requests[p].status = "returned"

\* the outcome of a request of operation op whose controller call is k:
\* a route answers 200, or 500 when an exception leaves the call
Done(op) == IF op \in ControllerOps THEN "returned" ELSE "200"
Failed(op) == IF op \in ControllerOps THEN "raised" ELSE "500"
StatusOf(k, op) ==
    IF InFlight(k) THEN "pending"
    ELSE IF k.pc = "returned" THEN Done(op) ELSE Failed(op)

Request(op, conversation_id, conversation, status, k) ==
    [op |-> op, n |-> nrequests + 1, conversation_id |-> conversation_id,
     conversation |-> conversation, status |-> status, call |-> k]

GetOrCreateConversation(p) ==
    /\ CanRequest(p)
    /\ \E conversation_id \in ControllerIds \cup {NoId} :
         LET r == get_or_create_conversation(self_active_conversations,
                                             objects, conversation_id)
         IN  /\ Len(r.objects) <= MaxObjects
             /\ self_active_conversations' = r.registry
             /\ objects' = r.objects
             /\ requests' = [requests EXCEPT ![p] =
                    Request("get_or_create_conversation", conversation_id,
                            r.conversation, "returned", IdleCall)]
    /\ nrequests' = nrequests + 1
    /\ UNCHANGED <<conv, calls, ncalls, ctx, ops, active_conversations>>

\* Mutate in which the turns, the open turn and the state are attributes of
\* the class: every Conversation gets them
Mutate_class_attributes(objs, conversation, c) ==
    [i \in 1..Len(objs) |-> [objs[i] EXCEPT !.conv = c]]

\* the methods of a Conversation assign to attributes of self, which
\* __init__ made for this object: what a call leaves in the object
\* conversation, c, is in no other object
Mutate(objs, conversation, c) ==
    [objs EXCEPT ![conversation].conv = c]

\* controller.process_user_input(conversation, text) up to its await
InputOn(p, op, conversation_id, conversation) ==
    LET r == process_user_input(objects[conversation].conv, IdleCall, "u1",
                                FALSE, <<>>)
    IN  /\ objects' = Mutate(objects, conversation, r.conv)
        /\ requests' = [requests EXCEPT ![p] =
               Request(op, conversation_id, conversation,
                       StatusOf(r.call, op), r.call)]

\* controller.process_confirmation(conversation, confirmed, handlers) up to
\* its first await, or to its end
ConfirmOn(p, op, conversation_id, conversation, confirmed, handlers) ==
    LET r == process_confirmation(objects[conversation].conv, IdleCall,
                                  confirmed, handlers)
    IN  /\ objects' = Mutate(objects, conversation, r.conv)
        /\ requests' = [requests EXCEPT ![p] =
               Request(op, conversation_id, conversation,
                       StatusOf(r.call, op), r.call)]

\* a caller passes the Conversation it holds to process_user_input
ControllerInput(p) ==
    /\ CanRequest(p)
    /\ Holds(p)
    /\ InputOn(p, "controller.process_user_input",
               requests[p].conversation_id, requests[p].conversation)
    /\ nrequests' = nrequests + 1
    /\ UNCHANGED <<conv, calls, ncalls, ctx, ops,
                   self_active_conversations, active_conversations>>

\* a caller passes the Conversation it holds to process_confirmation
ControllerConfirm(p) ==
    /\ CanRequest(p)
    /\ Holds(p)
    /\ \E confirmed \in BOOLEAN :
         ConfirmOn(p, "controller.process_confirmation",
                   requests[p].conversation_id, requests[p].conversation,
                   confirmed, RouteHandlers)
    /\ nrequests' = nrequests + 1
    /\ UNCHANGED <<conv, calls, ncalls, ctx, ops,
                   self_active_conversations, active_conversations>>

\* POST /start
StartConversation(p) ==
    /\ CanRequest(p)
    /\ Len(objects) < MaxObjects
    /\ LET conversation_id == uuid4(Len(objects) + 1)
           conversation == Len(objects) + 1
       IN  /\ objects' = Append(objects, Conversation(conversation_id))
           /\ active_conversations' =
                  SetItem(active_conversations, conversation_id, conversation)
           /\ requests' = [requests EXCEPT ![p] =
                  Request("start_conversation", conversation_id,
                          conversation, "200", IdleCall)]
    /\ nrequests' = nrequests + 1
    /\ UNCHANGED <<conv, calls, ncalls, ctx, ops, self_active_conversations>>

\* raise HTTPException(status_code=404)
NotFound(p, op, conversation_id) ==
    /\ requests' = [requests EXCEPT ![p] =
           Request(op, conversation_id, 0, "404", IdleCall)]
    /\ UNCHANGED objects

\* POST /input/{conversation_id} up to the await in process_user_input
RouteInput(p) ==
    /\ CanRequest(p)
    /\ \E conversation_id \in RouteIds :
         IF conversation_id \notin Keys(active_conversations)
         THEN NotFound(p, "process_user_input", conversation_id)
         ELSE InputOn(p, "process_user_input", conversation_id,
                      Get(active_conversations, conversation_id))
    /\ nrequests' = nrequests + 1
    /\ UNCHANGED <<conv, calls, ncalls, ctx, ops,
                   self_active_conversations, active_conversations>>

\* POST /confirm/{conversation_id} up to the first await in
\* process_confirmation, or to its end
RouteConfirm(p) ==
    /\ CanRequest(p)
    /\ \E conversation_id \in RouteIds, confirmed \in BOOLEAN :
         IF conversation_id \notin Keys(active_conversations)
         THEN NotFound(p, "process_confirmation", conversation_id)
         ELSE ConfirmOn(p, "process_confirmation", conversation_id,
                        Get(active_conversations, conversation_id),
                        confirmed, RouteHandlers)
    /\ nrequests' = nrequests + 1
    /\ UNCHANGED <<conv, calls, ncalls, ctx, ops,
                   self_active_conversations, active_conversations>>

\* the awaited query of a request returns; the request goes on with the
\* Conversation object it looked up before the await
ResumeRequestQuery(p) ==
    /\ requests[p].status = "pending"
    /\ requests[p].call.pc = "query"
    /\ \E result \in RegistryResults :
         LET o == requests[p].conversation
             r == process_user_input_resume(objects[o].conv,
                                            requests[p].call, result)
         IN  /\ objects' = Mutate(objects, o, r.conv)
             /\ requests' = [requests EXCEPT
                    ![p].call = r.call,
                    ![p].status = StatusOf(r.call, requests[p].op)]
    /\ UNCHANGED <<conv, calls, ncalls, ctx, ops, nrequests,
                   self_active_conversations, active_conversations>>

\* the awaited handler of a request returns or raises
ResumeRequestHandler(p) ==
    /\ requests[p].status = "pending"
    /\ requests[p].call.pc = "handler"
    /\ \E outcome \in Outcomes :
         LET o == requests[p].conversation
             r == process_confirmation_resume(objects[o].conv,
                                              requests[p].call, outcome)
         IN  /\ objects' = Mutate(objects, o, r.conv)
             /\ requests' = [requests EXCEPT
                    ![p].call = r.call,
                    ![p].status = StatusOf(r.call, requests[p].op)]
    /\ UNCHANGED <<conv, calls, ncalls, ctx, ops, nrequests,
                   self_active_conversations, active_conversations>>

\* GET /{conversation_id}: reads the Conversation, changes nothing
GetConversation(p) ==
    /\ CanRequest(p)
    /\ \E conversation_id \in RouteIds :
         IF conversation_id \notin Keys(active_conversations)
         THEN NotFound(p, "get_conversation", conversation_id)
         ELSE /\ requests' = [requests EXCEPT ![p] =
                     Request("get_conversation", conversation_id,
                             Get(active_conversations, conversation_id),
                             "200", IdleCall)]
              /\ UNCHANGED objects
    /\ nrequests' = nrequests + 1
    /\ UNCHANGED <<conv, calls, ncalls, ctx, ops,
                   self_active_conversations, active_conversations>>

\* end_conversation that empties the registry
end_conversation_clears(registry, conversation_id) ==
    IF conversation_id \notin Keys(registry)
    THEN [status |-> "404", registry |-> registry]
    ELSE [status |-> "200", registry |-> {}]

\* DELETE /{conversation_id}
end_conversation(registry, conversation_id) ==
    IF conversation_id \notin Keys(registry)
    THEN [status |-> "404", registry |-> registry]
    ELSE [status |-> "200", registry |-> DelItem(registry, conversation_id)]

EndConversation(p) ==
    /\ CanRequest(p)
    /\ \E conversation_id \in RouteIds :
         LET r == end_conversation(active_conversations, conversation_id)
         IN  /\ active_conversations' = r.registry
             /\ requests' = [requests EXCEPT ![p] =
                    Request("end_conversation", conversation_id, 0,
                            r.status, IdleCall)]
    /\ nrequests' = nrequests + 1
    /\ UNCHANGED <<conv, calls, ncalls, ctx, ops, objects,
                   self_active_conversations>>

\* Requests of two callers, served by one event loop: a request runs
\* alone from one await to the next
NextRegistry ==
    \E p \in Clients :
       \/ GetOrCreateConversation(p)
       \/ ControllerInput(p)
       \/ ControllerConfirm(p)
       \/ StartConversation(p)
       \/ RouteInput(p)
       \/ RouteConfirm(p)
       \/ ResumeRequestQuery(p)
       \/ ResumeRequestHandler(p)
       \/ GetConversation(p)
       \/ EndConversation(p)

SpecRegistry == Init /\ [][NextRegistry]_vars


-----------------------------------------------------------------------------
(* Properties of the registries (SpecRegistry)                             *)

\* the step serves a new request of p, which is a call of op
Served(p, op) ==
    /\ nrequests' = nrequests + 1
    /\ requests'[p].n = nrequests'
    /\ requests'[p].op = op

UniqueKeys(d) == \A e, f \in d : e.key = f.key => e = f

\* C29: a get_or_create_conversation with an identity that is not in the
\* registry adds exactly one entry for it, with a new Conversation; with an
\* identity that is in the registry it returns the Conversation of the
\* entry and changes neither the registry nor any Conversation (turns and
\* state are kept); start_conversation adds exactly one entry for its new
\* identity; keys are unique; an entry leaves a registry, or gets another
\* Conversation, only in a successful end_conversation of its identity; and
\* a registry changes only in get_or_create_conversation,
\* start_conversation and end_conversation, never in an input, a
\* confirmation or a read.
C29_RegistryLifecycle ==
    /\ [][\A p \in Clients :
            (Served(p, "get_or_create_conversation")
                /\ requests'[p].conversation_id # NoId) =>
              LET id == requests'[p].conversation_id
              IN  IF id \in Keys(self_active_conversations)
                  THEN /\ requests'[p].conversation =
                              Get(self_active_conversations, id)
                       /\ self_active_conversations' =
                              self_active_conversations
                       /\ objects' = objects
                  ELSE /\ requests'[p].conversation = Len(objects) + 1
                       /\ objects' = Append(objects, Conversation(id))
                       /\ self_active_conversations' =
                              self_active_conversations \cup
                                 {[key |-> id, value |-> Len(objects) + 1]}
                       /\ Cardinality(self_active_conversations') =
                              Cardinality(self_active_conversations) + 1
         ]_vars
    /\ [][\A p \in Clients :
            Served(p, "start_conversation") =>
              LET id == requests'[p].conversation_id
              IN  /\ id \notin Keys(active_conversations)
                  /\ objects' = Append(objects, Conversation(id))
                  /\ active_conversations' =
                         active_conversations \cup
                            {[key |-> id, value |-> Len(objects) + 1]}
                  /\ Cardinality(active_conversations') =
                         Cardinality(active_conversations) + 1
         ]_vars
    /\ [](UniqueKeys(self_active_conversations)
             /\ UniqueKeys(active_conversations))
    /\ [][\A e \in self_active_conversations :
             e \in self_active_conversations']_vars
    /\ [][\A e \in active_conversations :
             \/ e \in active_conversations'
             \/ \E p \in Clients :
                   /\ Served(p, "end_conversation")
                   /\ requests'[p].status = "200"
                   /\ requests'[p].conversation_id = e.key
                   /\ e.key \notin Keys(active_conversations')
         ]_vars
    /\ [][(self_active_conversations' # self_active_conversations
              \/ active_conversations' # active_conversations) =>
            \E p \in Clients :
               \/ Served(p, "get_or_create_conversation")
               \/ Served(p, "start_conversation")
               \/ Served(p, "end_conversation")
         ]_vars

\* a caller got, for an identity, the Conversation that another caller made
\* with that identity and has used since: it is awaiting a confirmation
C29_Witness ==
    \E p, q \in Clients :
       /\ p # q
       /\ requests[q].op = "controller.process_user_input"
       /\ requests[q].status = "returned"
       /\ requests[p].op = "get_or_create_conversation"
       /\ requests[p].n > requests[q].n
       /\ requests[p].conversation_id = requests[q].conversation_id
       /\ requests[p].conversation = requests[q].conversation
       /\ objects[requests[p].conversation].conv.state = AWAITING_CONFIRMATION
       /\ Len(objects[requests[p].conversation].conv.heap) = 1
       /\ Cardinality(self_active_conversations) = 1

\* the identity of a request that creates or deletes an entry
Touches(p, id) ==
    /\ \/ Served(p, "get_or_create_conversation")
       \/ Served(p, "start_conversation")
       \/ Served(p, "end_conversation")
    /\ requests'[p].conversation_id = id

\* the entries of the registry for other identities than id
Others(d, id) == {e \in d : e.key # id}

\* C30: two callers that called get_or_create_conversation with the same
\* identity, in whatever order their requests and those of others were
\* served, hold the same Conversation, and the registry has one entry for
\* the identity, with that Conversation; and a step that creates or deletes
\* the entry of one identity leaves the entries of all other identities,
\* and their Conversations, as they were.
C30_NoDestructiveRace ==
    /\ [](\A p, q \in Clients :
            (/\ requests[p].op \in ControllerOps
             /\ requests[q].op \in ControllerOps
             /\ requests[p].conversation_id # NoId
             /\ requests[p].conversation_id = requests[q].conversation_id)
            => /\ requests[p].conversation = requests[q].conversation
               /\ {e \in self_active_conversations :
                      e.key = requests[p].conversation_id}
                    = {[key |-> requests[p].conversation_id,
                        value |-> requests[p].conversation]})
    /\ [][\A p \in Clients :
            \A id \in ControllerIds \cup RouteIds \cup {NoId} :
               Touches(p, id) =>
                 /\ Others(self_active_conversations', id) =
                       Others(self_active_conversations, id)
                 /\ Others(active_conversations', id) =
                       Others(active_conversations, id)
                 /\ \A e \in Others(self_active_conversations, id)
                              \cup Others(active_conversations, id) :
                       objects'[e.value] = objects[e.value]
         ]_vars

\* both callers asked for the same identity and hold one Conversation,
\* while the registry has an entry of another identity as well
C30_Witness ==
    /\ requests["p"].op = "get_or_create_conversation"
    /\ requests["q"].op = "get_or_create_conversation"
    /\ requests["p"].conversation_id # NoId
    /\ requests["p"].conversation_id = requests["q"].conversation_id
    /\ requests["p"].conversation = requests["q"].conversation
    /\ Cardinality(self_active_conversations) = 2


-----------------------------------------------------------------------------
(* One process_user_input call on a new conversation, the reasoning        *)
(* service answering with a text of several json-tagged fenced blocks      *)

\* what stands in the first block and in a later block
FirstJson ==
    {"{proposed_actions:[note]}", "{proposed_actions:[]}", "{other:1}",
     "prose"}
LaterJson == {"{proposed_actions:[note,concept]}", "prose"}

\* a json-tagged fenced block
Block(json_text) == <<FENCE, "json", WS, json_text, WS, FENCE>>

\* the texts around the blocks
Before == { <<>>, <<WS>>, <<"prose", WS>> }
Amid == { <<>>, <<WS>>, <<WS, "prose", WS>> }
After ==
    { <<>>, <<WS>>, <<WS, "prose">>,
      <<WS>> \o Block("{proposed_actions:[concept,concept]}") }

BlockTexts ==
    { before \o Block(first) \o amid \o Block(later) \o after :
         before \in Before, first \in FirstJson, amid \in Amid,
         later \in LaterJson, after \in After }

ResumeInputBlocks(s) ==
    /\ calls[s].pc = "query"
    /\ \E text \in BlockTexts :
         LET r == process_user_input_resume(conv, calls[s],
                                            QueryResult(text, Absent))
         IN  /\ conv' = r.conv
             /\ calls' = [calls EXCEPT ![s] = r.call]
    /\ UNCHANGED <<ncalls, ctx, ops>>
    /\ UNCHANGED registry_vars

NextBlocks ==
    \/ BeginFirstInput("a")
    \/ ResumeInputBlocks("a")

SpecBlocks == Init /\ [][NextBlocks]_vars

\* the first opening fence of a text and the fence that closes its block
FirstOpen(text) ==
    CHOOSE i \in OpeningFences(text) : \A h \in OpeningFences(text) : i <= h
FirstClose(text) ==
    CHOOSE j \in 1..Len(text) :
       /\ j > FirstOpen(text) + 1 /\ text[j] = FENCE
       /\ \A h \in (FirstOpen(text) + 2)..(j - 1) : text[h] # FENCE

IsSuffix(s, t) ==
    /\ Len(s) <= Len(t)
    /\ SubSeq(t, Len(t) - Len(s) + 1, Len(t)) = s

\* C32: for a response with several json-tagged fenced blocks: when the
\* first block is a JSON object, the actions are those of the first block
\* (none when it has no proposed_actions key), the display text is the
\* response without the first block, trimmed, and all that follows the
\* first block, every later block included, stands in it unchanged (up to
\* the white space at the ends); when the first block is no JSON, no
\* actions are returned, whatever a later block holds.
C32_OnlyFirstBlockConsidered ==
    \A s \in AnsweredInputs :
       LET raw == Raw(s)
           i == FirstOpen(raw)
           j == FirstClose(raw)
           block == json_loads(Between(raw, i, j))
           rest == SubSeq(raw, j + 1, Len(raw))
       IN  (Cardinality(OpeningFences(raw)) >= 2 /\ HasBlock(raw)) =>
              /\ calls[s].pc = "returned"
              /\ (block.valid /\ block.top = "object") =>
                    /\ calls[s].ret.proposed_actions =
                          IF block.has_key THEN block.value ELSE EmptyList
                    /\ calls[s].ret.response =
                          Strip(SubSeq(raw, 1, i - 1) \o rest)
                    /\ IsSuffix(Strip(rest), calls[s].ret.response)
                    /\ Cardinality(OpeningFences(calls[s].ret.response)) =
                          Cardinality(OpeningFences(raw)) - 1
              /\ ~block.valid =>
                    /\ calls[s].ret.proposed_actions = EmptyList
                    /\ CurrentTurn(conv).proposed_actions = EmptyList
                    /\ ~calls[s].ret.requires_confirmation

\* a first block with one action, a later block with two: the first block
\* is gone, the later block stands in the display text, the action is that
\* of the first block
C32_Witness ==
    \E s \in AnsweredInputs :
       /\ Raw(s) = <<"prose", WS>> \o Block("{proposed_actions:[note]}")
                      \o <<WS>> \o Block("{proposed_actions:[note,concept]}")
       /\ calls[s].ret.response =
             <<"prose", WS, WS>> \o Block("{proposed_actions:[note,concept]}")
       /\ calls[s].ret.proposed_actions = PList(<<NoteAction>>)


-----------------------------------------------------------------------------
(* Further properties of a Conversation used directly (SpecConv)           *)

\* the summaries of closed turns in a rendered history
ClosedBlocks(history) == SelectSeq(history, LAMBDA b : b.kind = "turn")

Min(a, b) == IF a <= b THEN a ELSE b

\* C33: for every max_turns >= 0 the rendered history holds the summaries
\* of the min(max_turns, number of closed turns) most recent closed turns,
\* in the order of the history, so at most max_turns of them, followed by
\* the user input of the open turn when there is one.
C33_HistoryWindow ==
    \A max_turns \in 0..MaxOps :
       LET history == get_context_for_ai(conv, max_turns)
           closed == ClosedBlocks(history)
           n == Len(conv.turns)
       IN  /\ Len(closed) <= max_turns
           /\ Len(closed) = Min(max_turns, n)
           /\ \A i \in 1..Len(closed) :
                 /\ history[i] = closed[i]
                 /\ closed[i].user_input =
                       conv.heap[conv.turns[n - Len(closed) + i]].user_input
           /\ (conv.current_turn # 0 /\ CurrentTurn(conv).user_input # "") =>
                 /\ Len(history) = Len(closed) + 1
                 /\ history[Len(history)].kind = "current"
                 /\ history[Len(history)].user_input =
                       CurrentTurn(conv).user_input


-----------------------------------------------------------------------------
(* Serialization of a Conversation                                         *)

\* ConversationTurn.to_dict
turn_to_dict(turn) ==
    [user_input |-> turn.user_input,
     ai_response |-> turn.ai_response,
     proposed_actions |-> turn.proposed_actions,
     confirmed |-> turn.confirmed,
     executed_actions |-> turn.executed_actions,
     timestamp |-> turn.timestamp]

\* ConversationTurn.from_dict: the constructor takes proposed_actions or []
\* and executed_actions or [], then the timestamp is assigned
turn_from_dict(data) ==
    [user_input |-> data.user_input,
     ai_response |-> data.ai_response,
     proposed_actions |-> IF Truthy(data.proposed_actions)
                          THEN data.proposed_actions ELSE EmptyList,
     confirmed |-> data.confirmed,
     executed_actions |-> IF data.executed_actions # <<>>
                          THEN data.executed_actions ELSE <<>>,
     timestamp |-> data.timestamp]

\* Conversation.to_dict of the object self = [conversation_id, conv]; the
\* value under current_turn is written as a list: empty for None, else of
\* the one dict.  metadata is the dict __init__ made, nothing writes to it.
to_dict(self) ==
    [conversation_id |-> self.conversation_id,
     state |-> self.conv.state,
     turns |-> [i \in 1..Len(self.conv.turns) |->
                   turn_to_dict(self.conv.heap[self.conv.turns[i]])],
     current_turn |-> IF self.conv.current_turn # 0
                      THEN <<turn_to_dict(CurrentTurn(self.conv))>>
                      ELSE <<>>,
     metadata |-> {}]

\* Conversation.from_dict: new turn objects, those of the history first
from_dict(data) ==
    LET turns == [i \in 1..Len(data.turns) |-> turn_from_dict(data.turns[i])]
    IN  [conversation_id |-> data.conversation_id,
         metadata |-> data.metadata,
         conv |-> [turns |-> [i \in 1..Len(turns) |-> i],
                   state |-> data.state,
                   current_turn |-> IF data.current_turn # <<>>
                                    THEN Len(turns) + 1 ELSE 0,
                   heap |-> IF data.current_turn # <<>>
                            THEN Append(turns,
                                        turn_from_dict(data.current_turn[1]))
                            ELSE turns]]

\* the conversation of the sequential flow as an object of the registry of
\* the routes
TheConversation == [conversation_id |-> uuid4(1), conv |-> conv]

\* C34: from_dict(to_dict(c)) has the conversation_id, the state, the
\* metadata, the turns of the history (every field, in order) and the
\* current turn (or none) of c.
C34_RoundTrip ==
    LET c == TheConversation
        d == from_dict(to_dict(c))
    IN  /\ d.conversation_id = c.conversation_id
        /\ d.conv.state = c.conv.state
        /\ d.metadata = {}
        /\ Len(d.conv.turns) = Len(c.conv.turns)
        /\ \A i \in 1..Len(c.conv.turns) :
              d.conv.heap[d.conv.turns[i]] = c.conv.heap[c.conv.turns[i]]
        /\ (d.conv.current_turn = 0) = (c.conv.current_turn = 0)
        /\ c.conv.current_turn # 0 => CurrentTurn(d.conv) = CurrentTurn(c.conv)


-----------------------------------------------------------------------------
(* Properties of overlapping calls on one conversation (SpecOverlap)       *)

\* the positions of the proposed actions a call has passed to a handler
InvokedPositions(k) == {k.invoked[x].idx : x \in 1..Len(k.invoked)}

\* the turn is in the history
Closed(turn) == \E p \in 1..Len(conv.turns) : conv.turns[p] = turn

\* C35: of two process_confirmation calls on the same turn no proposed
\* action is passed to a handler by both, and no call that has passed an
\* action to a handler ends with the ValueError of set_executed_actions
\* (no active turn).
C35_DispatchedAtMostOnce ==
    /\ \A s, t \in ConfirmCalls :
          (s # t /\ calls[s].turn0 # 0 /\ calls[s].turn0 = calls[t].turn0)
             => InvokedPositions(calls[s]) \cap InvokedPositions(calls[t]) = {}
    /\ \A s \in ConfirmCalls :
          ~(/\ calls[s].pc = "raised"
            /\ calls[s].exc = "ValueError"
            /\ calls[s].invoked # <<>>)

\* C36: when a process_confirmation that was suspended in a handler ends
\* while a newer turn is the current turn, it records its executed actions
\* on the turn whose actions it dispatched and leaves the newer turn open
\* and as it was.
C36_ExecutionRecordedOnOwnTurn ==
    [][\A s \in Slots :
          (/\ calls[s].kind = "confirm"
           /\ calls[s].pc = "handler"
           /\ calls'[s].pc \in {"returned", "raised"}
           /\ conv.current_turn # 0
           /\ conv.current_turn # calls[s].turn0)
          => /\ conv'.current_turn = conv.current_turn
             /\ conv'.heap[conv.current_turn] = conv.heap[conv.current_turn]
             /\ calls'[s].pc = "returned"
             /\ conv'.heap[calls[s].turn0].executed_actions =
                   calls'[s].executed
      ]_vars

\* C37: a process_user_input that returns has attached its response and
\* its proposed actions to the turn it opened, the one with its user_input,
\* and has changed no other turn.
C37_ResponseOnOwnTurn ==
    [][\A s \in Slots :
          (/\ calls[s].kind = "input"
           /\ calls[s].pc = "query"
           /\ calls'[s].pc = "returned")
          => /\ conv'.heap[calls[s].turn0].user_input = calls[s].user_input
             /\ conv'.heap[calls[s].turn0].ai_response =
                   calls'[s].ret.response
             /\ conv'.heap[calls[s].turn0].proposed_actions =
                   calls'[s].ret.proposed_actions
             /\ \A h \in 1..Len(conv.heap) :
                   h # calls[s].turn0 => conv'.heap[h] = conv.heap[h]
      ]_vars

\* C38: no step passes an action to a handler for a call whose turn is in
\* the history without executed actions, that is, was rejected, or
\* abandoned by a later start_new_turn.
C38_NoDispatchAfterAbandon ==
    [][\A s \in Slots :
          (/\ calls'[s] # calls[s]
           /\ calls'[s].kind = "confirm"
           /\ calls'[s].pc = "handler")
          => ~(/\ Closed(calls'[s].turn0)
               /\ conv.heap[calls'[s].turn0].executed_actions = <<>>)
      ]_vars


-----------------------------------------------------------------------------
(* The state tag and the open turn (SpecConv)                              *)

\* the start_new_turn calls made so far
StartNewTurnCalls == {n \in 1..Len(ops) : ops[n].op = "start_new_turn"}

\* C39: after any sequence of calls of the Conversation methods there is no
\* current turn exactly when the state is INITIAL or AWAITING_USER_INPUT,
\* there is one exactly when the state is ANALYZING, AWAITING_CONFIRMATION
\* or EXECUTING, and the turns of the history plus the open turn are as
\* many as the start_new_turn calls made.
C39_StateAgreesWithOpenTurn ==
    /\ conv.state \in {INITIAL, AWAITING_USER_INPUT, ANALYZING,
                       AWAITING_CONFIRMATION, EXECUTING}
    /\ (conv.current_turn = 0) <=>
          (conv.state \in {INITIAL, AWAITING_USER_INPUT})
    /\ (conv.current_turn # 0) <=>
          (conv.state \in {ANALYZING, AWAITING_CONFIRMATION, EXECUTING})
    /\ Len(conv.turns) + (IF conv.current_turn # 0 THEN 1 ELSE 0) =
          Cardinality(StartNewTurnCalls)

\* three turns were started: one was rejected, one was abandoned by the
\* next start_new_turn, the third is confirmed and open
C39_Witness ==
    /\ Len(ops) = 5
    /\ ops[1].op = "start_new_turn"
    /\ ops[2].op = "set_confirmation(False)"
    /\ ops[3].op = "start_new_turn"
    /\ ops[4].op = "start_new_turn"
    /\ ops[5].op = "set_confirmation(True)"
    /\ Len(conv.turns) = 2
    /\ conv.current_turn = 3
    /\ conv.state = EXECUTING


-----------------------------------------------------------------------------
(* A caller that passes its own list as context to every call              *)

NextContext ==
    \/ BeginInput("a", TRUE)
    \/ ResumeInputOverlap("a")
    \/ BeginConfirm("a")
    \/ ResumeHandler("a")

SpecContext == Init /\ [][NextContext]_vars

\* the items of a context that hold a rendered history
HistoryItems(context) ==
    {n \in 1..Len(context) : context[n].type = "conversation_history"}

\* C40: the list the caller passes as context keeps the items it had, and
\* the context a process_user_input call hands to the reasoning service is
\* the caller's items followed by one conversation_history item.
C40_CallerContextUntouched ==
    /\ ctx = CallerContext
    /\ \A s \in Slots :
          calls[s].kind = "input" =>
             /\ Len(calls[s].merged_context) = Len(CallerContext) + 1
             /\ SubSeq(calls[s].merged_context, 1, Len(CallerContext)) =
                   CallerContext
             /\ HistoryItems(calls[s].merged_context) =
                   {Len(CallerContext) + 1}

=============================================================================
